---- MODULE Spec2Model ----
(***************************************************************************)
(* The expression pipeline of simple_server: tokenizer.rs, custom_parser.rs, *)
(* semantic_analyzer.rs, evaluator.rs and j_array.rs, driven as lib.rs       *)
(* drives them (evaluate_j_expression).                                      *)
(*                                                                           *)
(* Text is a sequence of one-character strings.  Rust's Result is a record   *)
(* [ok |-> TRUE, val |-> v] or [ok |-> FALSE, err |-> e].  Option is the     *)
(* value itself or the record None.                                          *)
(***************************************************************************)
EXTENDS Integers, Sequences, FiniteSets, TLC

VARIABLES
    overflow_checks,  \* the build's overflow-checks setting (on in debug, off in release)
    pc,               \* where evaluate_j_expression stands
    expression,       \* its argument
    tokens,           \* Ok(tokens) of tokenizer.tokenize
    parser,           \* the CustomParser: [tokens, position]
    ast,              \* Ok(ast) of parser.parse
    resolved_ast,     \* Ok(resolved_ast) of semantic_analyzer.analyze
    result,           \* what the call ends with: Ok(array) or Err(error)
    stages,           \* the stages this call has run, in order
    calls,            \* calls started so far
    first             \* expression text -> result of its first completed call

vars == <<overflow_checks, pc, expression, tokens, parser, ast, resolved_ast,
          result, stages, calls, first>>

\* ------------------------------------------------------------------ bounds
\* The longest input text that is enumerated exhaustively.
MaxLen == 3

\* The number of calls made on one CustomParser instance (SpecReuse).
MaxCalls == 3

\* ------------------------------------------------------- program constants
\* JValue::Integer(i32)
I32Bits == 32

\* number.parse::<i64>()
I64Bits == 64

\* ------------------------------------------------------------- Result
Ok(v) == [ok |-> TRUE, val |-> v]

Err(e) == [ok |-> FALSE, err |-> e]

\* A panic unwinds through every caller like an error that nobody matches.
Panic(msg) == [ok |-> FALSE, err |-> [kind |-> "Panic", variant |-> msg]]

None == [node |-> "None"]

\* ---------------------------------------------------------- machine integers
\* TLC's integers are 32 bits wide, so an i64 is kept as I64Bits/LimbBits
\* limbs, least significant first.
LimbBits == I32Bits \div 2

LimbBase == 2 ^ LimbBits

I64Limbs == I64Bits \div LimbBits

I32Max == (LimbBase \div 2 - 1) * LimbBase + (LimbBase - 1)

I32Min == (0 - (LimbBase \div 2)) * LimbBase

Digits == {"0", "1", "2", "3", "4", "5", "6", "7", "8", "9"}

DigitVal(c) ==
    CASE c = "0" -> 0 [] c = "1" -> 1 [] c = "2" -> 2 [] c = "3" -> 3
      [] c = "4" -> 4 [] c = "5" -> 5 [] c = "6" -> 6 [] c = "7" -> 7
      [] c = "8" -> 8 [] c = "9" -> 9

\* One step of the decimal parse, acc * 10 + d, on limbs; carry is what leaves
\* the top limb.
RECURSIVE Mul10Add(_, _, _)
Mul10Add(limbs, k, carry) ==
    IF k > Len(limbs) THEN [limbs |-> limbs, carry |-> carry]
    ELSE LET t == limbs[k] * 10 + carry
         IN Mul10Add([limbs EXCEPT ![k] = t % LimbBase], k + 1, t \div LimbBase)

\* str::parse::<i64> on a string of ASCII digits: the value, or an error when
\* it exceeds i64::MAX (checked_mul / checked_add in the standard library).
RECURSIVE ParseI64From(_, _, _)
RECURSIVE ParseI64Checked(_, _, _)
ParseI64From(number, k, acc) ==
    IF k > Len(number) THEN Ok(acc)
    ELSE ParseI64Checked(number, k, Mul10Add(acc, 1, DigitVal(number[k])))

\* The checked step: s is acc * 10 + digit with the carry out of the top limb.
ParseI64Checked(number, k, s) ==
    IF s.carry # 0 \/ s.limbs[I64Limbs] >= LimbBase \div 2
    THEN Err("PosOverflow")
    ELSE ParseI64From(number, k + 1, s.limbs)

ParseI64(number) ==
    IF number = <<>> THEN Err("Empty")
    ELSE ParseI64From(number, 1, [k \in 1..I64Limbs |-> 0])

\* `x as i32` for an i64 x: the low I32Bits bits, read as two's complement.
AsI32(x) ==
    IF x[2] >= LimbBase \div 2
    THEN (x[2] - LimbBase) * LimbBase + x[1]
    ELSE x[2] * LimbBase + x[1]

\* ------------------------------------------------------------ j_array.rs
\* A usize dimension is written as the i32 it was cast from (`i as usize` in
\* JEvaluator::reshape) or as the length it was taken from: a negative d
\* stands for the usize 2^N + d, N the pointer width.
Integer(i) == [tag |-> "Integer", i |-> i]

\* JValue::Float(f64), written by its value in tenths.
Float(tenths) == [tag |-> "Float", tenths |-> tenths]

Character(c) == [tag |-> "Character", c |-> c]

BoxValue(a) == [tag |-> "Box", boxed |-> a]

ArrayShape_scalar == [dimensions |-> <<>>]

ArrayShape_vector(len) == [dimensions |-> <<len>>]

ArrayShape_matrix(rows, cols) == [dimensions |-> <<rows, cols>>]

rank(shape) == Len(shape.dimensions)

IntegerData(values) == [k \in 1..Len(values) |-> Integer(values[k])]

JArray_scalar(value) == [data |-> <<Integer(value)>>, shape |-> ArrayShape_scalar]

JArray_vector(values) ==
    [data |-> IntegerData(values), shape |-> ArrayShape_vector(Len(values))]

\* assert_eq!(values.len(), rows * cols)
JArray_matrix(values, rows, cols) ==
    IF Len(values) # rows * cols THEN Panic("assert_eq")
    ELSE Ok([data |-> IntegerData(values), shape |-> ArrayShape_matrix(rows, cols)])

is_scalar(a) == rank(a.shape) = 0

is_vector(a) == rank(a.shape) = 1

\* `*f as i32` truncates toward zero.
to_integer(v) ==
    CASE v.tag = "Integer" -> Ok(v.i)
      [] v.tag = "Float" ->
            Ok(IF v.tenths >= 0 THEN v.tenths \div 10 ELSE -((-v.tenths) \div 10))
      [] OTHER -> Err("None")

type_name(v) ==
    CASE v.tag = "Integer" -> "integer"
      [] v.tag = "Float" -> "float"
      [] v.tag = "Character" -> "character"
      [] OTHER -> "box"

new_scalar(value) == JArray_scalar(AsI32(value))

new_integer(rk, shape, data) ==
    LET values == [k \in 1..Len(data) |-> AsI32(data[k])]
    IN CASE rk = 0 -> Ok(JArray_scalar(values[1]))
         [] rk = 1 -> Ok(JArray_vector(values))
         [] rk = 2 -> JArray_matrix(values, shape[1], shape[2])
         [] OTHER -> Ok(JArray_vector(values))

\* usize multiplication a * b leaves the usize range.  With a negative
\* representative standing for 2^N + d, the true product reaches 2^N unless
\* the other factor is 0 or 1.
MulOverflows(a, b) ==
    CASE a < 0 /\ b < 0 -> TRUE
      [] a < 0 -> b >= 2
      [] b < 0 -> a >= 2
      [] OTHER -> FALSE

\* self.dimensions.iter().product(): the fold panics on overflow when the
\* build checks overflow and wraps modulo 2^N when it does not.
RECURSIVE Product(_, _, _)
Product(dimensions, k, acc) ==
    IF k > Len(dimensions) THEN Ok(acc)
    ELSE IF MulOverflows(acc, dimensions[k]) /\ overflow_checks
    THEN Panic("attempt to multiply with overflow")
    ELSE Product(dimensions, k + 1, acc * dimensions[k])

total_elements(shape) ==
    IF shape.dimensions = <<>> THEN Ok(1) ELSE Product(shape.dimensions, 1, 1)

ArrayError(variant) == [kind |-> "ArrayError", variant |-> variant]

JArray_reshape(self, new_shape) ==
    LET current_elements == total_elements(self.shape)
        new_elements == total_elements(new_shape)
    IN IF ~current_elements.ok THEN current_elements
       ELSE IF ~new_elements.ok THEN new_elements
       ELSE IF current_elements.val # new_elements.val
       THEN Err([kind |-> "ArrayError", variant |-> "InvalidReshape",
                 from_shape |-> self.shape, to_shape |-> new_shape])
       ELSE Ok([data |-> self.data, shape |-> new_shape])

\* A tally that counts the elements.
JArray_tally_elements(self) == Len(self.data)

JArray_tally(self) ==
    IF self.shape.dimensions = <<>> THEN 1 ELSE self.shape.dimensions[1]

RECURSIVE SelectLoop(_, _, _, _)
\* A selection that counts the elements of the source from one.
SelectLoop_one_based(self, indices, k, result_data) ==
    IF k > Len(indices.data) THEN Ok(result_data)
    ELSE LET index == to_integer(indices.data[k])
         IN IF ~index.ok THEN Err(ArrayError("TypeMismatch"))
            ELSE IF index.val < 1 \/ index.val > Len(self.data)
            THEN Err(ArrayError("IndexOutOfBounds"))
            ELSE SelectLoop(self, indices, k + 1,
                            Append(result_data, self.data[index.val]))

\* The for loop of select_from from the k-th index on.
SelectLoop(self, indices, k, result_data) ==
    IF k > Len(indices.data) THEN Ok(result_data)
    ELSE LET index == to_integer(indices.data[k])
         IN IF ~index.ok THEN Err(ArrayError("TypeMismatch"))
            ELSE IF index.val < 0 \/ index.val >= Len(self.data)
            THEN Err(ArrayError("IndexOutOfBounds"))
            ELSE SelectLoop(self, indices, k + 1,
                            Append(result_data, self.data[index.val + 1]))

select_from(self, indices) ==
    LET result_data == SelectLoop(self, indices, 1, <<>>)
    IN IF ~result_data.ok THEN result_data
       ELSE Ok([data |-> result_data.val, shape |-> indices.shape])

JArray_ravel(self) == [data |-> self.data, shape |-> ArrayShape_vector(Len(self.data))]

RECURSIVE JArray_concatenate(_, _)
\* A concatenation of vectors with vectors and scalars with scalars only.
JArray_concatenate_alike(self, other) ==
    IF is_vector(self) /\ is_vector(other)
    THEN LET result_data == self.data \o other.data
         IN Ok([data |-> result_data, shape |-> ArrayShape_vector(Len(result_data))])
    ELSE IF is_scalar(self) /\ is_scalar(other)
    THEN Ok([data |-> <<self.data[1], other.data[1]>>, shape |-> ArrayShape_vector(2)])
    ELSE Err(ArrayError("ShapeMismatch"))

JArray_concatenate(self, other) ==
    IF is_vector(self) /\ is_vector(other)
    THEN LET result_data == self.data \o other.data
         IN Ok([data |-> result_data, shape |-> ArrayShape_vector(Len(result_data))])
    ELSE IF is_scalar(self) /\ is_scalar(other)
    THEN Ok([data |-> <<self.data[1], other.data[1]>>, shape |-> ArrayShape_vector(2)])
    ELSE JArray_concatenate(JArray_ravel(self), JArray_ravel(other))

\* A box that is a vector of one element.
box_array_vector(array) == [data |-> <<BoxValue(array)>>, shape |-> ArrayShape_vector(1)]

box_array(array) == [data |-> <<BoxValue(array)>>, shape |-> ArrayShape_scalar]

unbox(self) ==
    IF is_scalar(self) /\ self.data[1].tag = "Box" THEN self.data[1].boxed ELSE None

is_boxed(self) == is_scalar(self) /\ self.data[1].tag = "Box"

\* ------------------------------------------------------------ tokenizer.rs
Vector(a) == [type |-> "Vector", array |-> a]

Verb(c) == [type |-> "Verb", c |-> c]

LeftParen == [type |-> "LeftParen"]

RightParen == [type |-> "RightParen"]

VerbChars == {"+", "~", "#", "<", "{", ","}

TokenError(variant, what) == [kind |-> "TokenError", variant |-> variant, what |-> what]

is_digit(c) == c \in Digits

\* while let Some(&c) = chars.peek() { if c.is_digit(10) { chars.next() } else { break } }
\* The index of the first character at or after i that is no digit.
RECURSIVE ScanDigits(_, _)
ScanDigits(input, i) ==
    IF i <= Len(input) /\ is_digit(input[i]) THEN ScanDigits(input, i + 1) ELSE i

\* "Skip any additional spaces"
RECURSIVE SkipSpaces(_, _)
SkipSpaces(input, i) ==
    IF i <= Len(input) /\ input[i] = " " THEN SkipSpaces(input, i + 1) ELSE i

RECURSIVE MoreNumbers(_, _, _)
RECURSIVE NextNumber(_, _, _, _)
RECURSIVE PushNumber(_, _, _, _, _)

\* A lexer that ends the Vector token at the first space after a numeral.
MoreNumbers_unfolded(input, i, numbers) == Ok([numbers |-> numbers, next |-> i])

\* "Look for more space-separated numbers": the numbers of the vector and the
\* index of the next unread character.
MoreNumbers(input, i, numbers) ==
    IF i <= Len(input) /\ input[i] = " "
    THEN NextNumber(input, SkipSpaces(input, i + 1), numbers, i)
    ELSE Ok([numbers |-> numbers, next |-> i])

\* "Check if the next character starts a number": k is the first character
\* after the spaces.
NextNumber(input, k, numbers, i) ==
    IF k <= Len(input) /\ is_digit(input[k])
    THEN PushNumber(input, ScanDigits(input, k), numbers, k,
                    ParseI64(SubSeq(input, k, ScanDigits(input, k) - 1)))
    ELSE Ok([numbers |-> numbers, next |-> k])

\* match number.parse::<i64>() for a number of characters k .. e - 1
PushNumber(input, e, numbers, k, n) ==
    IF n.ok THEN MoreNumbers(input, e, Append(numbers, n.val))
    ELSE Err(TokenError("InvalidNumber", SubSeq(input, k, e - 1)))

\* "Create JArray token"
VectorToken(numbers) ==
    IF Len(numbers) = 1 THEN Ok(new_scalar(numbers[1]))
    ELSE new_integer(1, <<Len(numbers)>>, numbers)

\* The token and the index of the next unread character, from the numbers.
LexVectorToken(more, jarray) ==
    IF ~jarray.ok THEN jarray
    ELSE Ok([token |-> Vector(jarray.val), next |-> more.val.next])

LexVectorMore(more) ==
    IF ~more.ok THEN more ELSE LexVectorToken(more, VectorToken(more.val.numbers))

\* "Parse the first number", of characters i .. e - 1
LexVectorFirst(input, i, e, n) ==
    IF ~n.ok THEN Err(TokenError("InvalidNumber", SubSeq(input, i, e - 1)))
    ELSE LexVectorMore(MoreNumbers(input, e, <<n.val>>))

\* The '0'..='9' arm: one Vector token for the whole run of numbers.
LexVector(input, i) ==
    LexVectorFirst(input, i, ScanDigits(input, i),
                   ParseI64(SubSeq(input, i, ScanDigits(input, i) - 1)))

\* The loop of tokenize from character i on.  lexemes holds each token pushed
\* so far with the indices of its first and last character.
RECURSIVE TokenizeFrom(_, _, _)
RECURSIVE PushVector(_, _, _, _)

\* A lexer that returns the tokens pushed so far when it meets a character it
\* does not know.
TokenizeFrom_partial(input, i, lexemes) ==
    IF i > Len(input) THEN Ok(lexemes)
    ELSE CASE is_digit(input[i]) -> PushVector(input, i, lexemes, LexVector(input, i))
           [] input[i] \in VerbChars ->
                TokenizeFrom(input, i + 1,
                  Append(lexemes, [token |-> Verb(input[i]), first |-> i, last |-> i]))
           [] input[i] = "(" ->
                TokenizeFrom(input, i + 1,
                  Append(lexemes, [token |-> LeftParen, first |-> i, last |-> i]))
           [] input[i] = ")" ->
                TokenizeFrom(input, i + 1,
                  Append(lexemes, [token |-> RightParen, first |-> i, last |-> i]))
           [] input[i] = " " -> TokenizeFrom(input, i + 1, lexemes)
           [] OTHER -> Ok(lexemes)

TokenizeFrom(input, i, lexemes) ==
    IF i > Len(input) THEN Ok(lexemes)
    ELSE CASE is_digit(input[i]) -> PushVector(input, i, lexemes, LexVector(input, i))
           [] input[i] \in VerbChars ->
                TokenizeFrom(input, i + 1,
                  Append(lexemes, [token |-> Verb(input[i]), first |-> i, last |-> i]))
           [] input[i] = "(" ->
                TokenizeFrom(input, i + 1,
                  Append(lexemes, [token |-> LeftParen, first |-> i, last |-> i]))
           [] input[i] = ")" ->
                TokenizeFrom(input, i + 1,
                  Append(lexemes, [token |-> RightParen, first |-> i, last |-> i]))
           [] input[i] = " " -> TokenizeFrom(input, i + 1, lexemes)
           [] OTHER -> Err(TokenError("UnknownCharacter", input[i]))

\* tokens.push(Token::Vector(jarray))
PushVector(input, i, lexemes, v) ==
    IF ~v.ok THEN v
    ELSE TokenizeFrom(input, v.val.next,
           Append(lexemes, [token |-> v.val.token, first |-> i, last |-> v.val.next - 1]))

Lexemes(input) == TokenizeFrom(input, 1, <<>>)

TokensOf(r) == IF r.ok THEN Ok([k \in 1..Len(r.val) |-> r.val[k].token]) ELSE r

tokenize(input) == TokensOf(Lexemes(input))

\* --------------------------------------------------------------- parser.rs
Literal(a) == [node |-> "Literal", array |-> a]

MonadicVerb(verb, arg) == [node |-> "MonadicVerb", verb |-> verb, arg |-> arg]

DyadicVerb(verb, left, right) ==
    [node |-> "DyadicVerb", verb |-> verb, left |-> left, right |-> right]

AmbiguousVerb(verb, left, right) ==
    [node |-> "AmbiguousVerb", verb |-> verb, left |-> left, right |-> right]

ParseError(variant, msg) == [kind |-> "ParseError", variant |-> variant, msg |-> msg]

\* -------------------------------------------------------- custom_parser.rs
\* self.position counts consumed tokens from 0, so the token it points at is
\* tokens[position + 1] of the 1-based sequence.  Every method returns
\* self.position as it leaves it: Parsed on Ok, Failed on Err.
Parsed(n, position) == [ok |-> TRUE, val |-> n, position |-> position]

Failed(e, position) == [ok |-> FALSE, err |-> e, position |-> position]

CustomParser_new == [tokens |-> <<>>, position |-> 0]

MonadicLayer == {"~", "-", "#", ",", "<", "{"}

DyadicLayer == {"#", "{", ",", "<", "~", "-"}

RECURSIVE parse_expression(_, _)
RECURSIVE ExpressionLoop(_, _, _)
RECURSIVE ExpressionRight(_, _, _)
RECURSIVE ExpressionLeft(_, _)
RECURSIVE parse_j_operators(_, _)
RECURSIVE JOperatorsLoop(_, _, _)
RECURSIVE JOperatorsRight(_, _, _, _)
RECURSIVE JOperatorsLeft(_, _)
RECURSIVE parse_monadic(_, _)
RECURSIVE parse_primary(_, _)

\* A parser that takes the end of input for the closing parenthesis.
CloseParen_lenient(toks, expr) ==
    IF ~expr.ok THEN expr
    ELSE IF expr.position >= Len(toks)
    THEN Parsed(expr.val, expr.position)
    ELSE IF toks[expr.position + 1].type = "RightParen"
    THEN Parsed(expr.val, expr.position + 1)
    ELSE Failed(ParseError("InvalidExpression", "Error: Expected closing parenthesis"),
                expr.position)

\* The Token::LeftParen arm after  let expr = self.parse_expression()?
CloseParen(toks, expr) ==
    IF ~expr.ok THEN expr
    ELSE IF expr.position >= Len(toks)
    THEN Failed(ParseError("InvalidExpression", "Error: Missing closing parenthesis"),
                expr.position)
    ELSE IF toks[expr.position + 1].type = "RightParen"
    THEN Parsed(expr.val, expr.position + 1)
    ELSE Failed(ParseError("InvalidExpression", "Error: Expected closing parenthesis"),
                expr.position)

\* A parser that reads the inside of a parenthesis as an array-operator chain.
parse_primary_chain(toks, position) ==
    IF position >= Len(toks)
    THEN Failed(ParseError("NotImplemented",
                  "Error: Expected expression but reached end of input"), position)
    ELSE CASE toks[position + 1].type = "LeftParen" ->
                CloseParen(toks, parse_j_operators(toks, position + 1))
           [] toks[position + 1].type = "Vector" ->
                Parsed(Literal(toks[position + 1].array), position + 1)
           [] toks[position + 1].type = "Verb" /\ toks[position + 1].c \in MonadicLayer ->
                Failed(ParseError("NotImplemented",
                         "Error: Operator found where literal expected"), position)
           [] OTHER ->
                Failed(ParseError("NotImplemented",
                         "Error: Unexpected token at position " \o ToString(position)),
                       position)

parse_primary(toks, position) ==
    IF position >= Len(toks)
    THEN Failed(ParseError("NotImplemented",
                  "Error: Expected expression but reached end of input"), position)
    ELSE CASE toks[position + 1].type = "LeftParen" ->
                CloseParen(toks, parse_expression(toks, position + 1))
           [] toks[position + 1].type = "Vector" ->
                Parsed(Literal(toks[position + 1].array), position + 1)
           [] toks[position + 1].type = "Verb" /\ toks[position + 1].c \in MonadicLayer ->
                Failed(ParseError("NotImplemented",
                         "Error: Operator found where literal expected"), position)
           [] OTHER ->
                Failed(ParseError("NotImplemented",
                         "Error: Unexpected token at position " \o ToString(position)),
                       position)

\* A parser that does not count the monadic verb it consumed.
MonadicNode_uncounted(verb, operand) ==
    IF ~operand.ok THEN operand
    ELSE Parsed(AmbiguousVerb(verb, None, operand.val), operand.position - 1)

\* return Ok(JNode::AmbiguousVerb(verb, None, Some(Box::new(operand))))
MonadicNode(verb, operand) ==
    IF ~operand.ok THEN operand
    ELSE Parsed(AmbiguousVerb(verb, None, operand.val), operand.position)

\* A parser whose monadic verb takes the whole expression to its right.
parse_monadic_greedy(toks, position) ==
    IF /\ position < Len(toks)
       /\ toks[position + 1].type = "Verb"
       /\ toks[position + 1].c \in MonadicLayer
    THEN MonadicNode(toks[position + 1].c, parse_expression(toks, position + 1))
    ELSE parse_primary(toks, position)

parse_monadic(toks, position) ==
    IF /\ position < Len(toks)
       /\ toks[position + 1].type = "Verb"
       /\ toks[position + 1].c \in MonadicLayer
    THEN MonadicNode(toks[position + 1].c, parse_primary(toks, position + 1))
    ELSE parse_primary(toks, position)

\* while self.position < self.tokens.len() { match ... } of parse_j_operators
JOperatorsLoop(toks, position, left) ==
    IF /\ position < Len(toks)
       /\ toks[position + 1].type = "Verb"
       /\ toks[position + 1].c \in DyadicLayer
    THEN JOperatorsRight(toks, toks[position + 1].c, left,
                         parse_monadic(toks, position + 1))
    ELSE Parsed(left, position)

\* A parser whose dyadic verb takes the rest of the chain as its right operand.
JOperatorsRight_nested(toks, verb, left, right) ==
    IF ~right.ok THEN right
    ELSE LET rest == JOperatorsLoop(toks, right.position, right.val)
         IN IF ~rest.ok THEN rest
            ELSE Parsed(AmbiguousVerb(verb, left, rest.val), rest.position)

\* left = JNode::AmbiguousVerb(verb, Some(Box::new(left)), Some(Box::new(right)))
JOperatorsRight(toks, verb, left, right) ==
    IF ~right.ok THEN right
    ELSE JOperatorsLoop(toks, right.position, AmbiguousVerb(verb, left, right.val))

\* let mut left = self.parse_monadic()?
JOperatorsLeft(toks, left) ==
    IF ~left.ok THEN left ELSE JOperatorsLoop(toks, left.position, left.val)

parse_j_operators(toks, position) == JOperatorsLeft(toks, parse_monadic(toks, position))

\* A parser whose + takes one monadic term as its right operand.
ExpressionLoop_term(toks, position, left) ==
    IF position < Len(toks)
    THEN CASE toks[position + 1].type = "Verb" /\ toks[position + 1].c = "+" ->
                ExpressionRight(toks, left, parse_monadic(toks, position + 1))
           [] toks[position + 1].type = "Verb" /\ toks[position + 1].c # "+" ->
                Failed(ParseError("NotImplemented",
                         "Error: Operator '" \o toks[position + 1].c
                           \o "' not implemented in Phase 5"), position)
           [] OTHER -> Parsed(left, position)
    ELSE Parsed(left, position)

\* while self.position < self.tokens.len() { match ... } of parse_expression
ExpressionLoop(toks, position, left) ==
    IF position < Len(toks)
    THEN CASE toks[position + 1].type = "Verb" /\ toks[position + 1].c = "+" ->
                ExpressionRight(toks, left, parse_j_operators(toks, position + 1))
           [] toks[position + 1].type = "Verb" /\ toks[position + 1].c # "+" ->
                Failed(ParseError("NotImplemented",
                         "Error: Operator '" \o toks[position + 1].c
                           \o "' not implemented in Phase 5"), position)
           [] OTHER -> Parsed(left, position)
    ELSE Parsed(left, position)

\* left = JNode::AmbiguousVerb('+', Some(Box::new(left)), Some(Box::new(right)))
ExpressionRight(toks, left, right) ==
    IF ~right.ok THEN right
    ELSE ExpressionLoop(toks, right.position, AmbiguousVerb("+", left, right.val))

\* let mut left = self.parse_j_operators()?
ExpressionLeft(toks, left) ==
    IF ~left.ok THEN left ELSE ExpressionLoop(toks, left.position, left.val)

parse_expression(toks, position) == ExpressionLeft(toks, parse_j_operators(toks, position))

\* What parse leaves and returns when parse_expression returned r.
ParseOutcome(toks, r) ==
    [self |-> [tokens |-> toks, position |-> r.position],
     result |-> IF r.ok THEN Ok(r.val) ELSE Err(r.err)]

\* A parser that goes on from the position its last call left.
CustomParser_parse_resumed(self, toks) ==
    IF toks = <<>>
    THEN [self |-> [tokens |-> toks, position |-> self.position],
          result |-> Err(ParseError("NotImplemented", "Error: Empty expression"))]
    ELSE ParseOutcome(toks, parse_expression(toks, self.position))

\* CustomParser::parse(&mut self, tokens): the parser as the call leaves it
\* and the call's result.  self.tokens = tokens; self.position = 0.
CustomParser_parse(self, toks) ==
    IF toks = <<>>
    THEN [self |-> [tokens |-> toks, position |-> 0],
          result |-> Err(ParseError("NotImplemented", "Error: Empty expression"))]
    ELSE ParseOutcome(toks, parse_expression(toks, 0))

\* ------------------------------------------------------ semantic_analyzer.rs
SemanticError(variant, verb) == [kind |-> "SemanticError", variant |-> variant, verb |-> verb]

\* A validation that lets the monadic { through.
validate_monadic_verb_catalog(verb) ==
    IF verb \in {"+", "~", "#", ",", "<", "{"} THEN Ok("unit")
    ELSE Err(SemanticError("InvalidVerbUsage", verb))

validate_monadic_verb(verb) ==
    IF verb \in {"+", "~", "#", ",", "<"} THEN Ok("unit")
    ELSE Err(SemanticError("InvalidVerbUsage", verb))

validate_dyadic_verb(verb) ==
    IF verb \in {"+", "#", "{", ",", "<"} THEN Ok("unit")
    ELSE Err(SemanticError("InvalidVerbUsage", verb))

RECURSIVE resolve_context(_)
resolve_context(n) ==
    CASE n.node = "AmbiguousVerb" ->
           CASE n.left = None /\ n.right # None ->
                  LET resolved_right == resolve_context(n.right)
                  IN IF ~resolved_right.ok THEN resolved_right
                     ELSE IF ~validate_monadic_verb(n.verb).ok
                     THEN validate_monadic_verb(n.verb)
                     ELSE Ok(MonadicVerb(n.verb, resolved_right.val))
             [] n.left # None /\ n.right # None ->
                  LET resolved_left == resolve_context(n.left)
                  IN IF ~resolved_left.ok THEN resolved_left
                     ELSE LET resolved_right == resolve_context(n.right)
                          IN IF ~resolved_right.ok THEN resolved_right
                             ELSE IF ~validate_dyadic_verb(n.verb).ok
                             THEN validate_dyadic_verb(n.verb)
                             ELSE Ok(DyadicVerb(n.verb, resolved_left.val,
                                                resolved_right.val))
             [] OTHER -> Err(SemanticError("InvalidVerbUsage", n.verb))
      [] n.node = "Literal" -> Ok(Literal(n.array))
      [] n.node = "MonadicVerb" ->
           LET resolved_arg == resolve_context(n.arg)
           IN IF ~resolved_arg.ok THEN resolved_arg
              ELSE IF ~validate_monadic_verb(n.verb).ok
              THEN validate_monadic_verb(n.verb)
              ELSE Ok(MonadicVerb(n.verb, resolved_arg.val))
      [] n.node = "DyadicVerb" ->
           LET resolved_left == resolve_context(n.left)
           IN IF ~resolved_left.ok THEN resolved_left
              ELSE LET resolved_right == resolve_context(n.right)
                   IN IF ~resolved_right.ok THEN resolved_right
                      ELSE IF ~validate_dyadic_verb(n.verb).ok
                      THEN validate_dyadic_verb(n.verb)
                      ELSE Ok(DyadicVerb(n.verb, resolved_left.val, resolved_right.val))

\* An analyzer that hands the tree on as it came.
analyze_unresolved(n) == Ok(n)

analyze(n) == resolve_context(n)

\* ------------------------------------------------------------- evaluator.rs
EvaluationError(variant) == [kind |-> "EvaluationError", variant |-> variant]

\* impl From<ArrayError> for EvaluationError, applied by `?`; a panic passes.
FromArrayError(r) ==
    IF r.ok \/ r.err.kind # "ArrayError" THEN r
    ELSE Err([kind |-> "EvaluationError", variant |-> "ArrayError", array_error |-> r.err])

\* i32 a + b: panics on overflow when the build checks overflow, wraps when
\* it does not.
AddI32(a, b) ==
    CASE a > 0 /\ b > I32Max - a ->
           IF overflow_checks THEN Panic("attempt to add with overflow")
           ELSE Ok((a + I32Min) + (b + I32Min))
      [] a < 0 /\ b < I32Min - a ->
           IF overflow_checks THEN Panic("attempt to add with overflow")
           ELSE Ok((a - I32Min) + (b - I32Min))
      [] OTHER -> Ok(a + b)

\* An iota that counts from one.
iota_from_one(array) ==
    IF ~is_scalar(array) THEN Err(EvaluationError("DomainError"))
    ELSE LET n == to_integer(array.data[1])
         IN IF ~n.ok THEN Err(EvaluationError("DomainError"))
            ELSE IF n.val < 0 THEN Err(EvaluationError("DomainError"))
            ELSE Ok(JArray_vector([k \in 1..n.val |-> k]))

iota(array) ==
    IF ~is_scalar(array) THEN Err(EvaluationError("DomainError"))
    ELSE LET n == to_integer(array.data[1])
         IN IF ~n.ok THEN Err(EvaluationError("DomainError"))
            ELSE IF n.val < 0 THEN Err(EvaluationError("DomainError"))
            ELSE Ok(JArray_vector([k \in 1..n.val |-> k - 1]))

plus_monadic(array) == Ok(array)

tally(array) == Ok(JArray_scalar(JArray_tally(array)))

ravel(array) == Ok(JArray_ravel(array))

box_verb(array) == Ok(box_array(array))

\* A comparison that also answers 1 for equal elements.
ApplyVerb_or_equal(verb, left_val, right_val) ==
    IF verb = "+" THEN AddI32(left_val, right_val)
    ELSE Ok(IF left_val <= right_val THEN 1 ELSE 0)

\* The closure of the map: the verb on one pair of elements.
ApplyVerb(verb, left_val, right_val) ==
    IF verb = "+" THEN AddI32(left_val, right_val)
    ELSE Ok(IF left_val < right_val THEN 1 ELSE 0)

RECURSIVE ZipMap(_, _, _, _, _)
\* A map that reads an element that is no number as 0.
ZipMap_lenient(verb, left_data, right_data, k, acc) ==
    IF k > Len(left_data) \/ k > Len(right_data) THEN Ok(acc)
    ELSE LET x == ApplyVerb(verb,
                    IF to_integer(left_data[k]).ok THEN to_integer(left_data[k]).val ELSE 0,
                    IF to_integer(right_data[k]).ok THEN to_integer(right_data[k]).val ELSE 0)
         IN IF ~x.ok THEN x
            ELSE ZipMap(verb, left_data, right_data, k + 1, Append(acc, x.val))

\* left.iter().zip(right.iter()).map(..).collect::<Result<Vec<i32>, _>>() from
\* pair k on: it ends with the shorter side, and with the first pair that fails.
ZipMap(verb, left_data, right_data, k, acc) ==
    IF k > Len(left_data) \/ k > Len(right_data) THEN Ok(acc)
    ELSE IF ~to_integer(left_data[k]).ok \/ ~to_integer(right_data[k]).ok
    THEN Err(EvaluationError("DomainError"))
    ELSE LET x == ApplyVerb(verb, to_integer(left_data[k]).val,
                            to_integer(right_data[k]).val)
         IN IF ~x.ok THEN x
            ELSE ZipMap(verb, left_data, right_data, k + 1, Append(acc, x.val))

\* A scalar operand meets every element of the other operand.
Broadcast(v, n) == [k \in 1..n |-> v]

plus_dyadic(left, right) ==
    CASE is_scalar(left) /\ is_scalar(right) ->
           LET left_val == to_integer(left.data[1])
               right_val == to_integer(right.data[1])
           IN IF ~left_val.ok THEN Err(EvaluationError("DomainError"))
              ELSE IF ~right_val.ok THEN Err(EvaluationError("DomainError"))
              ELSE LET sum == AddI32(left_val.val, right_val.val)
                   IN IF ~sum.ok THEN sum ELSE Ok(JArray_scalar(sum.val))
      [] is_scalar(left) /\ ~is_scalar(right) ->
           IF ~to_integer(left.data[1]).ok THEN Err(EvaluationError("DomainError"))
           ELSE LET result_data == ZipMap("+", Broadcast(left.data[1], Len(right.data)),
                                          right.data, 1, <<>>)
                IN IF ~result_data.ok THEN result_data
                   ELSE Ok(JArray_vector(result_data.val))
      [] ~is_scalar(left) /\ is_scalar(right) ->
           IF ~to_integer(right.data[1]).ok THEN Err(EvaluationError("DomainError"))
           ELSE LET result_data == ZipMap("+", left.data,
                                          Broadcast(right.data[1], Len(left.data)), 1, <<>>)
                IN IF ~result_data.ok THEN result_data
                   ELSE Ok(JArray_vector(result_data.val))
      [] OTHER ->
           IF left.shape.dimensions # right.shape.dimensions
           THEN Err(EvaluationError("DimensionMismatch"))
           ELSE LET result_data == ZipMap("+", left.data, right.data, 1, <<>>)
                IN IF ~result_data.ok THEN result_data
                   ELSE Ok([data |-> IntegerData(result_data.val), shape |-> left.shape])

\* shape_array.data.iter().map(|v| v.to_integer().map(|i| i as usize)..).collect()
RECURSIVE NewDims(_, _, _)
NewDims(data, k, acc) ==
    IF k > Len(data) THEN Ok(acc)
    ELSE IF ~to_integer(data[k]).ok THEN Err(EvaluationError("DomainError"))
    ELSE NewDims(data, k + 1, Append(acc, to_integer(data[k]).val))

reshape(shape_array, data_array) ==
    LET new_dims == NewDims(shape_array.data, 1, <<>>)
    IN IF ~new_dims.ok THEN new_dims
       ELSE FromArrayError(JArray_reshape(data_array, [dimensions |-> new_dims.val]))

from_verb(indices, source) == FromArrayError(select_from(source, indices))

concatenate(left, right) == FromArrayError(JArray_concatenate(left, right))

less_than(left, right) ==
    IF is_scalar(left) /\ is_scalar(right)
    THEN LET left_val == to_integer(left.data[1])
             right_val == to_integer(right.data[1])
         IN IF ~left_val.ok THEN Err(EvaluationError("DomainError"))
            ELSE IF ~right_val.ok THEN Err(EvaluationError("DomainError"))
            ELSE Ok(JArray_scalar(IF left_val.val < right_val.val THEN 1 ELSE 0))
    ELSE LET lt == total_elements(left.shape)
             rt == total_elements(right.shape)
         IN IF ~lt.ok THEN lt
            ELSE IF ~rt.ok THEN rt
            ELSE IF lt.val # rt.val THEN Err(EvaluationError("DimensionMismatch"))
            ELSE LET result_data == ZipMap("<", left.data, right.data, 1, <<>>)
                 IN IF ~result_data.ok THEN result_data
                    ELSE Ok([data |-> IntegerData(result_data.val), shape |-> left.shape])

RECURSIVE evaluate(_)
\* An evaluator that evaluates the right operand of a dyadic verb first.
evaluate_right_first(n) ==
    CASE n.node = "Literal" -> Ok(n.array)
      [] n.node = "MonadicVerb" ->
           LET arg_value == evaluate(n.arg)
           IN IF ~arg_value.ok THEN arg_value
              ELSE CASE n.verb = "~" -> iota(arg_value.val)
                     [] n.verb = "+" -> plus_monadic(arg_value.val)
                     [] n.verb = "#" -> tally(arg_value.val)
                     [] n.verb = "," -> ravel(arg_value.val)
                     [] n.verb = "<" -> box_verb(arg_value.val)
                     [] OTHER -> Err(EvaluationError("UnsupportedVerb"))
      [] n.node = "DyadicVerb" ->
           LET right_value == evaluate(n.right)
           IN IF ~right_value.ok THEN right_value
              ELSE LET left_value == evaluate(n.left)
                   IN IF ~left_value.ok THEN left_value
                      ELSE CASE n.verb = "+" -> plus_dyadic(left_value.val, right_value.val)
                             [] n.verb = "#" -> reshape(left_value.val, right_value.val)
                             [] n.verb = "{" -> from_verb(left_value.val, right_value.val)
                             [] n.verb = "," -> concatenate(left_value.val, right_value.val)
                             [] n.verb = "<" -> less_than(left_value.val, right_value.val)
                             [] OTHER -> Err(EvaluationError("UnsupportedVerb"))
      [] OTHER -> Err(EvaluationError("DomainError"))

evaluate(n) ==
    CASE n.node = "Literal" -> Ok(n.array)
      [] n.node = "MonadicVerb" ->
           LET arg_value == evaluate(n.arg)
           IN IF ~arg_value.ok THEN arg_value
              ELSE CASE n.verb = "~" -> iota(arg_value.val)
                     [] n.verb = "+" -> plus_monadic(arg_value.val)
                     [] n.verb = "#" -> tally(arg_value.val)
                     [] n.verb = "," -> ravel(arg_value.val)
                     [] n.verb = "<" -> box_verb(arg_value.val)
                     [] OTHER -> Err(EvaluationError("UnsupportedVerb"))
      [] n.node = "DyadicVerb" ->
           LET left_value == evaluate(n.left)
           IN IF ~left_value.ok THEN left_value
              ELSE LET right_value == evaluate(n.right)
                   IN IF ~right_value.ok THEN right_value
                      ELSE CASE n.verb = "+" -> plus_dyadic(left_value.val, right_value.val)
                             [] n.verb = "#" -> reshape(left_value.val, right_value.val)
                             [] n.verb = "{" -> from_verb(left_value.val, right_value.val)
                             [] n.verb = "," -> concatenate(left_value.val, right_value.val)
                             [] n.verb = "<" -> less_than(left_value.val, right_value.val)
                             [] OTHER -> Err(EvaluationError("UnsupportedVerb"))
      [] OTHER -> Err(EvaluationError("DomainError"))

\* ------------------------------------------------------------------ inputs
\* The characters of the exhaustively enumerated texts: digits, the space, a
\* tab, a newline, every verb, both parentheses and a character the lexer does
\* not know.
Alphabet == {"1", "2", " ", "\t", "\n", "+", "~", "#", ",", "<", "{", "(", ")", "&"}

ShortTexts == UNION {[1..k -> Alphabet] : k \in 0..MaxLen}

\* Longer texts of the form  verb Primary + verb Primary.
Primaries == {<<"3">>, <<"1", " ", "2">>, <<"(", "2", ")">>, <<"(", "1", "+", "2", ")">>}

PrecedenceTexts ==
    {<<v1>> \o p1 \o <<"+">> \o <<v2>> \o p2 :
        v1 \in {"~", "#", ",", "<", "{"}, v2 \in {"~", "#", ",", "<", "{"},
        p1 \in Primaries, p2 \in Primaries}

\* Literals beyond the i32 range, and sums and shapes that overflow.
WideTexts ==
    { <<"4","2","9","4","9","6","7","2","9","5"," ","4","2","9","4","9","6","7","2","9","5","#","7">>,
      <<"4","2","9","4","9","6","7","2","9","4"," ","4","2","9","4","9","6","7","2","9","3","#","~","6">>,
      <<"4","2","9","4","9","6","7","2","9","5","#","7">>,
      <<"2","1","4","7","4","8","3","6","4","7","+","1">>,
      <<"2","1","4","7","4","8","3","6","4","8">>,
      <<"4","2","9","4","9","6","7","2","9","6","+","1">>,
      <<"2","1","4","7","4","8","3","6","4","7"," ","1","+","1"," ","2">>,
      <<"9","2","2","3","3","7","2","0","3","6","8","5","4","7","7","5","8","0","8">>,
      <<"9","2","2","3","3","7","2","0","3","6","8","5","4","7","7","5","8","0","8","&">> }

\* The texts of PrecedenceTexts with one closing parenthesis left out.
Without(t, i) == SubSeq(t, 1, i - 1) \o SubSeq(t, i + 1, Len(t))

UnclosedTexts ==
    UNION {{Without(t, i) : i \in {k \in 1..Len(t) : t[k] = ")"}} : t \in PrecedenceTexts}

\* Chains  a v1 b v2 c  and  a v1 b v2 c v3 d  of the array-operator layer.
ChainTerms == {<<"1">>, <<"~", "2">>, <<"(", "1", "+", "2", ")">>}

ChainVerbs == {"#", "{", ",", "<", "~"}

ChainTexts ==
    {a \o <<v1>> \o b \o <<v2>> \o c :
        a \in ChainTerms, b \in ChainTerms, c \in ChainTerms,
        v1 \in ChainVerbs, v2 \in ChainVerbs}
    \cup {<<"1", v1, "2", v2, "1", v3, "2">> :
             v1 \in ChainVerbs, v2 \in ChainVerbs, v3 \in ChainVerbs}

\* Texts  a o1 b o2 c  and  a o1 b o2 c o3 d  with a + among the verbs.
PlusTerms == {<<"1">>, <<"~", "2">>}

PlusTexts ==
    {a \o <<o1>> \o b \o <<o2>> \o c :
        a \in PlusTerms, b \in PlusTerms, c \in PlusTerms,
        o1 \in ChainVerbs \cup {"+"}, o2 \in {"+"}}
    \cup {a \o <<"+">> \o b \o <<o2>> \o c :
             a \in PlusTerms, b \in PlusTerms, c \in PlusTerms, o2 \in ChainVerbs}
    \cup {<<"1", o1, "2", o2, "1", o3, "2">> :
             o1 \in {",", "+"}, o2 \in {"#", "+"}, o3 \in {"<", "+"}}

\* The texts the documentation and the tests name.
ScenarioTexts ==
    { <<"1", " ", "2", " ", "&", " ", "3">>, <<"1", " ", "2", ")">>, <<"1", "(", "2", ")">>,
      <<"1", " ", "2", "#">>, <<"1", " ", "2", " ", "3">>, <<"1", "\t", "+", "2">>,
      <<"(", "1", "+", "2", ")", "#", "1", " ", "2", " ", "3">>,
      <<"~", "(", "1", "+", "2", ")">>, <<"(", "1", "+", "2", ")", "#", "3">>,
      <<"~", "3", "+", "#", "~", "4">>, <<"#", "~", "0">>, <<"#", "(", "~", "4", ")">>,
      <<"2", " ", "3", "#", "1", " ", "2", " ", "3", " ", "4">>,
      <<"2", " ", "2", "#", "1", " ", "2", " ", "3", " ", "4">>,
      <<"2", " ", "1", " ", "2", "#", "1", " ", "2", " ", "3", " ", "4">>,
      <<"3", "#", "1", " ", "2", " ", "3">>, <<"2", "#", "1", " ", "2", " ", "3">>,
      <<"0", "#", "1">>, <<"1", " ", "1", "#", "7">>,
      <<"0", " ", "2", "{", "1", "0", " ", "2", "0", " ", "3", "0", " ", "4", "0">>,
      <<"5", "{", "1", "0", " ", "2", "0", " ", "3", "0">>,
      <<"0", " ", "5", "{", "1", "0", " ", "2", "0", " ", "3", "0">>,
      <<"2", " ", "2", " ", "0", "{", "1", "0", " ", "2", "0", " ", "3", "0">>,
      <<"1", " ", "2", ",", "3", " ", "4">>, <<"1", ",", "2">>, <<"1", " ", "2", ",", "3">>,
      <<"1", "+", "<", "2">>, <<"(", "<", "1", ")", "<", "2">>, <<"1", " ", "2", "<", "2", " ", "1">>,
      <<"1", "<", "1", " ", "2">> }

Texts ==
    ShortTexts \cup PrecedenceTexts \cup UnclosedTexts \cup WideTexts \cup ScenarioTexts
      \cup ChainTexts \cup PlusTexts

\* Texts evaluated one after another on one parser: they leave the parser at
\* different positions and end in every category of result.
ReuseTexts ==
    { <<"2">>, <<"1", "+", "2">>, <<"1", " ", "2", ")">>, <<"(", "1">>, <<"~">>,
      <<"&">>, <<"{", "1">>, <<"1", "{", "2">>, <<"~", "2">>, <<"1", "(", "2", ")">>,
      <<>> }

\* --------------------------------------------------------------------- lib.rs
\* evaluate_j_expression, one action per stage of its nested match.
Init ==
    /\ overflow_checks \in BOOLEAN
    /\ pc = "idle"
    /\ expression = <<>>
    /\ tokens = None
    /\ parser = CustomParser_new
    /\ ast = None
    /\ resolved_ast = None
    /\ result = None
    /\ stages = <<>>
    /\ calls = 0
    /\ first = <<>>

\* The call begins: its locals are fresh; p is the parser it uses.
Begin(e, p) ==
    /\ expression' = e
    /\ parser' = p
    /\ pc' = "tokenize"
    /\ tokens' = None
    /\ ast' = None
    /\ resolved_ast' = None
    /\ result' = None
    /\ stages' = <<>>
    /\ calls' = calls + 1
    /\ UNCHANGED <<overflow_checks, first>>

\* The call returns r.
Return(r) ==
    /\ result' = r
    /\ pc' = "done"
    /\ first' = IF \E k \in 1..Len(first) : first[k].expression = expression
                THEN first
                ELSE Append(first, [expression |-> expression, result |-> r])

\* let mut parser = CustomParser::new(): every call of lib.rs has its own.
Call ==
    /\ pc = "idle"
    /\ \E e \in Texts : Begin(e, CustomParser_new)

\* A caller that keeps one CustomParser across calls, or makes a new one.
CallReuse ==
    /\ pc \in {"idle", "done"}
    /\ calls < MaxCalls
    /\ \E e \in ReuseTexts, p \in {CustomParser_new, parser} : Begin(e, p)

\* match tokenizer.tokenize(expression)
TokenizeEnds(r) ==
    IF r.ok
    THEN /\ tokens' = r
         /\ pc' = "parse"
         /\ UNCHANGED <<result, first>>
    ELSE /\ tokens' = None
         /\ Return(r)

Tokenize ==
    /\ pc = "tokenize"
    /\ stages' = Append(stages, "tokenize")
    /\ TokenizeEnds(tokenize(expression))
    /\ UNCHANGED <<overflow_checks, expression, parser, ast, resolved_ast, calls>>

\* match parser.parse(tokens)
ParseEnds(r) ==
    /\ parser' = r.self
    /\ IF r.result.ok
       THEN /\ ast' = r.result
            /\ pc' = "analyze"
            /\ UNCHANGED <<result, first>>
       ELSE /\ ast' = None
            /\ Return(r.result)

Parse ==
    /\ pc = "parse"
    /\ stages' = Append(stages, "parse")
    /\ ParseEnds(CustomParser_parse(parser, tokens.val))
    /\ UNCHANGED <<overflow_checks, expression, tokens, resolved_ast, calls>>

\* match semantic_analyzer.analyze(ast)
AnalyzeEnds(r) ==
    IF r.ok
    THEN /\ resolved_ast' = r
         /\ pc' = "evaluate"
         /\ UNCHANGED <<result, first>>
    ELSE /\ resolved_ast' = None
         /\ Return(r)

Analyze ==
    /\ pc = "analyze"
    /\ stages' = Append(stages, "analyze")
    /\ AnalyzeEnds(analyze(ast.val))
    /\ UNCHANGED <<overflow_checks, expression, tokens, parser, ast, calls>>

\* match evaluator.evaluate(&resolved_ast)
Evaluate ==
    /\ pc = "evaluate"
    /\ stages' = Append(stages, "evaluate")
    /\ Return(evaluate(resolved_ast.val))
    /\ UNCHANGED <<overflow_checks, expression, tokens, parser, ast, resolved_ast, calls>>

Next == Call \/ Tokenize \/ Parse \/ Analyze \/ Evaluate

Spec == Init /\ [][Next]_vars

NextReuse == CallReuse \/ Tokenize \/ Parse \/ Analyze \/ Evaluate

SpecReuse == Init /\ [][NextReuse]_vars


\* ------------------------------------------------------------- properties
\* ------------------------------------------------------------ test_suite.rs
\* The arrays and trees handed to the analyzer and the evaluator directly, as
\* the tests do: every rank, an empty vector, a matrix without rows, every
\* kind of JValue and elements at the ends of the i32 range (no scalar so
\* large that its iota could not be allocated).
Arrays ==
    { JArray_scalar(0), JArray_scalar(2), JArray_scalar(3), JArray_scalar(-1),
      JArray_scalar(I32Min),
      JArray_vector(<<>>), JArray_vector(<<5>>), JArray_vector(<<1, 2>>),
      JArray_vector(<<3, 4>>), JArray_vector(<<1, 2, 3>>), JArray_vector(<<I32Max, 1>>),
      JArray_matrix(<<1, 2, 3, 4>>, 2, 2).val, JArray_matrix(<<1, 2, 3, 4, 5, 6>>, 3, 2).val,
      JArray_matrix(<<>>, 0, 3).val,
      box_array(JArray_scalar(1)),
      [data |-> <<Character("a")>>, shape |-> ArrayShape_scalar],
      [data |-> <<Float(25)>>, shape |-> ArrayShape_scalar],
      [data |-> <<Integer(1), Character("a")>>, shape |-> ArrayShape_vector(2)] }

TreeVerbs == {"+", "~", "#", ",", "<", "{", "-"}

\* The nodes over given operands; only an AmbiguousVerb has optional operands.
Nodes(operands) ==
    {AmbiguousVerb(v, l, r) :
        v \in TreeVerbs, l \in operands \cup {None}, r \in operands \cup {None}}
    \cup {DyadicVerb(v, l, r) : v \in TreeVerbs, l \in operands, r \in operands}
    \cup {MonadicVerb(v, a) : v \in TreeVerbs, a \in operands}

Leaves == {Literal(a) : a \in Arrays}

\* Operands that are nodes themselves: resolvable and not, resolved and not,
\* evaluating to an array and failing in every kind of failure.
SubTrees ==
    { Literal(JArray_scalar(3)), Literal(JArray_vector(<<1, 2>>)),
      AmbiguousVerb("~", None, Literal(JArray_scalar(3))),
      AmbiguousVerb("{", None, Literal(JArray_scalar(3))),
      AmbiguousVerb("+", Literal(JArray_scalar(1)), Literal(JArray_scalar(2))),
      AmbiguousVerb("~", Literal(JArray_scalar(1)), Literal(JArray_scalar(2))),
      AmbiguousVerb("#", Literal(JArray_scalar(1)), None),
      AmbiguousVerb("+", None, None),
      MonadicVerb("~", Literal(JArray_scalar(3))),
      DyadicVerb("+", Literal(JArray_vector(<<1, 2>>)), Literal(JArray_vector(<<3, 4>>))),
      MonadicVerb("-", Literal(JArray_scalar(3))),
      DyadicVerb("{", Literal(JArray_scalar(5)), Literal(JArray_vector(<<1, 2>>))),
      DyadicVerb("+", Literal(JArray_scalar(I32Min)), Literal(JArray_scalar(I32Min))) }

\* An array without elements whose first dimensions are the largest usize:
\* its element count is 0, the partial products of its dimensions are not.
HugeEmpty == [data |-> <<>>, shape |-> [dimensions |-> <<-1, -1, 0>>]]

\* (shape of A) # , A
RoundTrip(a) ==
    DyadicVerb("#", Literal(JArray_vector(a.shape.dimensions)), MonadicVerb(",", Literal(a)))

RoundTripArrays == Arrays \cup {HugeEmpty}

RoundTripTrees == {RoundTrip(a) : a \in RoundTripArrays}

\* The trees of the expressions the documentation and the tests name.
ExampleTrees ==
    { DyadicVerb("{", Literal(JArray_vector(<<0, 2>>)),
                      Literal(JArray_vector(<<10, 20, 30, 40>>))),
      DyadicVerb("{", Literal(JArray_scalar(5)), Literal(JArray_vector(<<10, 20, 30>>))),
      DyadicVerb("{", Literal(JArray_vector(<<0, 5>>)), Literal(JArray_vector(<<10, 20, 30>>))),
      DyadicVerb(",", Literal(JArray_vector(<<1, 2>>)), Literal(JArray_vector(<<3, 4>>))),
      DyadicVerb(",", Literal(JArray_scalar(1)), Literal(JArray_scalar(2))),
      DyadicVerb("+", Literal(JArray_scalar(1)), MonadicVerb("<", Literal(JArray_scalar(2)))),
      DyadicVerb("<", MonadicVerb("<", Literal(JArray_scalar(1))), Literal(JArray_scalar(2))) }

Trees ==
    Leaves \cup Nodes(Leaves) \cup Nodes(SubTrees) \cup RoundTripTrees \cup ExampleTrees

\* analyzer.analyze(tree) or evaluator.evaluate(&tree) on a tree built by hand.
InitTrees ==
    /\ overflow_checks \in BOOLEAN
    /\ expression = <<>>
    /\ tokens = None
    /\ parser = CustomParser_new
    /\ result = None
    /\ stages = <<>>
    /\ calls = 0
    /\ first = <<>>
    /\ \E t \in Trees :
         \/ pc = "analyze" /\ ast = Ok(t) /\ resolved_ast = None
         \/ pc = "evaluate" /\ ast = None /\ resolved_ast = Ok(t)

\* boxed.unbox() on the array an evaluation returned, as test_boxing does.
Unbox ==
    /\ pc = "done"
    /\ result.ok
    /\ result' = unbox(result.val)
    /\ pc' = "unboxed"
    /\ stages' = Append(stages, "unbox")
    /\ UNCHANGED <<overflow_checks, expression, tokens, parser, ast, resolved_ast, calls,
                   first>>

NextTrees == Analyze \/ Evaluate \/ Unbox

SpecTrees == InitTrees /\ [][NextTrees]_vars

\* The stages the call has completed.
Tokenized == Len(stages) >= 1

ParseRan == Len(stages) >= 2

Done == pc = "done"

\* The tree of each text of Primaries.
PrimaryTree(p) ==
    CASE p = <<"3">> -> Literal(JArray_scalar(3))
      [] p = <<"1", " ", "2">> -> Literal(JArray_vector(<<1, 2>>))
      [] p = <<"(", "2", ")">> -> Literal(JArray_scalar(2))
      [] p = <<"(", "1", "+", "2", ")">> ->
           AmbiguousVerb("+", Literal(JArray_scalar(1)), Literal(JArray_scalar(2)))

PrecedenceVerbs == {"~", "#", ",", "<", "{"}

\* C1: for the text  v1 p1 + v2 p2  (v1, v2 monadic verbs, p1, p2 Primaries)
\* the parser returns AmbiguousVerb('+', Some(L), Some(R)) with
\* L = AmbiguousVerb(v1, None, Some(tree of p1)) and
\* R = AmbiguousVerb(v2, None, Some(tree of p2)); and the call on ~3+~3 ends
\* with the rank-1 array [0, 2, 4].
C1_Precedence ==
    /\ \A v1 \in PrecedenceVerbs, v2 \in PrecedenceVerbs, p1 \in Primaries, p2 \in Primaries :
         (ParseRan /\ expression = <<v1>> \o p1 \o <<"+">> \o <<v2>> \o p2)
         => ast = Ok(AmbiguousVerb("+", AmbiguousVerb(v1, None, PrimaryTree(p1)),
                                        AmbiguousVerb(v2, None, PrimaryTree(p2))))
    /\ (Done /\ expression = <<"~", "3", "+", "~", "3">>)
       => result = Ok([data |-> <<Integer(0), Integer(2), Integer(4)>>,
                       shape |-> [dimensions |-> <<3>>]])

C1_Witness ==
    /\ Done
    /\ expression = <<"~", "3", "+", "~", "3">>
    /\ result.ok
    /\ ast.val.verb = "+"

\* The number of elements a shape stands for: the product of its dimensions,
\* 1 for rank 0.  A negative representative stands for 2^N + d, which no data
\* length reaches, so a shape with one and no zero dimension has no data length.
RECURSIVE DimProduct(_, _)
DimProduct(dimensions, k) ==
    IF k > Len(dimensions) THEN 1 ELSE dimensions[k] * DimProduct(dimensions, k + 1)

\* data.len() == total_elements(shape) for the array a and every array boxed in it.
RECURSIVE LengthInvariant(_)
LengthInvariant(a) ==
    /\ IF \E k \in 1..Len(a.shape.dimensions) : a.shape.dimensions[k] = 0
       THEN Len(a.data) = 0
       ELSE /\ \A k \in 1..Len(a.shape.dimensions) : a.shape.dimensions[k] > 0
            /\ Len(a.data) = DimProduct(a.shape.dimensions, 1)
    /\ \A k \in 1..Len(a.data) :
         a.data[k].tag = "Box" => LengthInvariant(a.data[k].boxed)

\* Every array of a tree.
RECURSIVE TreeInvariant(_)
TreeInvariant(n) ==
    CASE n.node = "Literal" -> LengthInvariant(n.array)
      [] n.node = "MonadicVerb" -> TreeInvariant(n.arg)
      [] n.node \in {"DyadicVerb", "AmbiguousVerb"} ->
           /\ n.left # None => TreeInvariant(n.left)
           /\ n.right # None => TreeInvariant(n.right)

\* C2: every array the call holds (in a token, in a tree, as its result)
\* has as many data elements as the product of its dimensions, 1 for rank 0.
C2_LengthInvariant ==
    /\ tokens # None =>
         \A k \in 1..Len(tokens.val) :
           tokens.val[k].type = "Vector" => LengthInvariant(tokens.val[k].array)
    /\ ast # None => TreeInvariant(ast.val)
    /\ resolved_ast # None => TreeInvariant(resolved_ast.val)
    /\ (Done /\ result.ok) => LengthInvariant(result.val)

AllStages == <<"tokenize", "parse", "analyze", "evaluate">>

\* The kinds of failure each stage ends the call with; a panic of the
\* arithmetic is a failure of the evaluation.
Category(stage) ==
    CASE stage = "tokenize" -> {"TokenError"}
      [] stage = "parse" -> {"ParseError"}
      [] stage = "analyze" -> {"SemanticError"}
      [] stage = "evaluate" -> {"EvaluationError", "Panic"}

\* The characters the language knows: digits, white space, verbs, parentheses.
KnownChars == Digits \cup {" ", "\t", "\n"} \cup VerbChars \cup {"(", ")"}

HasUnknownChar(text) == \E i \in 1..Len(text) : text[i] \notin KnownChars

C4_Deterministic ==
    Done => \A k \in 1..Len(first) :
              first[k].expression = expression => first[k].result = result

\* The third call repeats the first text after another text, and the other
\* text left the parser at a position other than 0.
C4_Witness ==
    /\ Done
    /\ calls = MaxCalls
    /\ Len(first) = MaxCalls - 1
    /\ first[1].expression = expression
    /\ expression = <<"(", "1">>
    /\ first[2].expression = <<"1", "+", "2">>

\* ---- the numerals of a text
\* The indices at which a numeral (a maximal run of digits) starts.
NumeralStarts(text) ==
    {s \in 1..Len(text) : is_digit(text[s]) /\ (s = 1 \/ ~is_digit(text[s - 1]))}

\* The index of the last digit of the numeral that starts at s.
NumeralEnd(text, s) ==
    CHOOSE e \in s..Len(text) :
        /\ \A j \in s..e : is_digit(text[j])
        /\ e = Len(text) \/ ~is_digit(text[e + 1])

\* The numerals that start a run: no numeral before them with only spaces between.
RunStarts(text) ==
    {s \in NumeralStarts(text) :
        ~\E q \in NumeralStarts(text) :
            q < s /\ \A j \in NumeralEnd(text, q) + 1 .. s - 1 : text[j] = " "}

\* The numerals of the run that starts at r: digits and spaces only from r on.
RunMembers(text, r) ==
    {n \in NumeralStarts(text) : n >= r /\ \A j \in r..n : text[j] \in Digits \cup {" "}}

Ascending(S) ==
    CHOOSE f \in [1..Cardinality(S) -> S] : \A i, j \in 1..Cardinality(S) : i < j => f[i] < f[j]

\* The value the lexer stores for the numeral that starts at s.
NumeralValue(text, s) == AsI32(ParseI64(SubSeq(text, s, NumeralEnd(text, s))).val)

\* The array of the run that starts at r: rank 0 for one numeral, rank 1 with
\* the numerals in source order for more.
RunArray(text, r) ==
    LET members == Ascending(RunMembers(text, r))
    IN IF Len(members) = 1
       THEN [data |-> <<Integer(NumeralValue(text, members[1]))>>,
             shape |-> [dimensions |-> <<>>]]
       ELSE [data |-> [k \in 1..Len(members) |-> Integer(NumeralValue(text, members[k]))],
             shape |-> [dimensions |-> <<Len(members)>>]]

IsVectorToken(t) == t.type = "Vector"

\* C5: the Vector tokens of a tokenized text are, in order, one per maximal run
\* of space-separated numerals, of rank 0 for a run of one numeral and of rank 1
\* with the k numerals in source order for a run of k >= 2; no two Vector tokens
\* are adjacent.
C5_NumeralRuns ==
    tokens # None =>
      /\ LET vectors == SelectSeq(tokens.val, IsVectorToken)
             runs == Ascending(RunStarts(expression))
         IN /\ Len(vectors) = Len(runs)
            /\ \A j \in 1..Len(vectors) : vectors[j].array = RunArray(expression, runs[j])
      /\ \A k \in 1..Len(tokens.val) - 1 :
           ~(IsVectorToken(tokens.val[k]) /\ IsVectorToken(tokens.val[k + 1]))

\* A run of two numerals and a run of one in one text.
C5_Witness ==
    /\ expression = <<"~", "1", " ", "2", "+", "~", "3">>
    /\ tokens = Ok(<<Verb("~"), Vector(JArray_vector(<<1, 2>>)), Verb("+"), Verb("~"),
                     Vector(JArray_scalar(3))>>)

\* Every numeral of the text is one parse::<i64> accepts.
NumeralsFit(text) ==
    \A s \in NumeralStarts(text) : ParseI64(SubSeq(text, s, NumeralEnd(text, s))).ok

FirstUnknown(text) ==
    CHOOSE i \in 1..Len(text) :
        text[i] \notin KnownChars /\ \A j \in 1..i - 1 : text[j] \in KnownChars

\* C6: tokenize of a text with a character that is no digit, no white space, no
\* verb and no parenthesis fails with UnknownCharacter(c), c the first such
\* character, and returns no tokens.
C6_UnknownCharacter ==
    (Tokenized /\ HasUnknownChar(expression) /\ NumeralsFit(expression))
    => /\ Done
       /\ result = Err(TokenError("UnknownCharacter", expression[FirstUnknown(expression)]))
       /\ tokens = None

Whitespace == {" ", "\t", "\n"}

\* The character at i is white space outside a run of numerals.
Standalone(text, i) ==
    /\ text[i] \in Whitespace
    /\ ~\E q \in 1..i - 1, n \in i + 1..Len(text) :
          /\ is_digit(text[q]) /\ is_digit(text[n])
          /\ \A j \in q + 1..n - 1 : text[j] \in Whitespace

\* What tokenize returned to the call.
Tokenization == IF tokens # None THEN tokens ELSE result

\* C7: tokenize returns for a text what it returns for the text without any
\* one of its white-space characters (space, tab, newline) that stands outside
\* a run of numerals.
C7_WhitespaceSkipped ==
    Tokenized =>
      \A i \in 1..Len(expression) :
        Standalone(expression, i) => Tokenization = tokenize(Without(expression, i))

\* C8: a parse that returns a tree has consumed every token; when tokens remain
\* after a complete expression the parse fails with UnexpectedToken.
C8_TrailingTokens ==
    ParseRan =>
      /\ ast # None => parser.position = Len(tokens.val)
      /\ (/\ tokens.val # <<>>
          /\ parse_expression(tokens.val, 0).ok
          /\ parse_expression(tokens.val, 0).position < Len(tokens.val))
         => /\ Done
            /\ ~result.ok
            /\ result.err.kind = "ParseError"
            /\ result.err.variant = "UnexpectedToken"

\* C9: when the parser has consumed every token and the last one is a verb,
\* the parse fails with UnexpectedEndOfInput.
C9_EndAfterVerb ==
    (/\ ParseRan
     /\ tokens.val # <<>>
     /\ tokens.val[Len(tokens.val)].type = "Verb"
     /\ parser.position = Len(tokens.val))
    => /\ Done
       /\ ~result.ok
       /\ result.err.kind = "ParseError"
       /\ result.err.variant = "UnexpectedEndOfInput"

\* ---- the grammar, on the tokens i .. j of a token sequence
GrammarMonadic == {"~", "#", ",", "<", "{"}

GrammarDyadic == {"#", "{", ",", "<", "~"}

RECURSIVE IsExpression(_, _, _)
RECURSIVE IsJOperators(_, _, _)
RECURSIVE IsPrimary(_, _, _)
\* Primary: a Vector token, or ( Expression ).
IsPrimary(toks, i, j) ==
    \/ i = j /\ toks[i].type = "Vector"
    \/ /\ i + 2 <= j
       /\ toks[i].type = "LeftParen"
       /\ toks[j].type = "RightParen"
       /\ IsExpression(toks, i + 1, j - 1)

\* Monadic: a Primary, or a monadic verb and a Primary.
IsMonadic(toks, i, j) ==
    \/ IsPrimary(toks, i, j)
    \/ /\ i < j
       /\ toks[i].type = "Verb"
       /\ toks[i].c \in GrammarMonadic
       /\ IsPrimary(toks, i + 1, j)

\* Array-operator chain: Monadic (dyadic-verb Monadic)*.
IsJOperators(toks, i, j) ==
    \/ IsMonadic(toks, i, j)
    \/ \E k \in i + 1..j - 1 :
         /\ toks[k].type = "Verb"
         /\ toks[k].c \in GrammarDyadic
         /\ IsMonadic(toks, k + 1, j)
         /\ IsJOperators(toks, i, k - 1)

\* Expression: chain (+ chain)*.
IsExpression(toks, i, j) ==
    \/ IsJOperators(toks, i, j)
    \/ \E k \in i + 1..j - 1 :
         /\ toks[k] = Verb("+")
         /\ IsJOperators(toks, k + 1, j)
         /\ IsExpression(toks, i, k - 1)

\* The tokens before p are ones after which an operand starts at p: p is the
\* first token, follows an opened parenthesis, or follows a dyadic verb that
\* follows complete operands.
RECURSIVE ExpectsMonadic(_, _)
ExpectsMonadic(toks, p) ==
    \/ p = 1
    \/ /\ p > 1
       /\ toks[p - 1].type = "LeftParen"
       /\ \/ ExpectsMonadic(toks, p - 1)
          \/ /\ p > 2
             /\ toks[p - 2].type = "Verb"
             /\ toks[p - 2].c \in GrammarMonadic
             /\ ExpectsMonadic(toks, p - 2)
    \/ /\ p > 2
       /\ toks[p - 1].type = "Verb"
       /\ \E i \in 1..p - 2 :
            /\ IF toks[p - 1].c = "+" THEN IsExpression(toks, i, p - 2)
               ELSE toks[p - 1].c \in GrammarDyadic /\ IsJOperators(toks, i, p - 2)
            /\ ExpectsMonadic(toks, i)

\* A Primary may start at p: an operand starts there or at the monadic verb before it.
ExpectsPrimary(toks, p) ==
    \/ ExpectsMonadic(toks, p)
    \/ /\ p > 1
       /\ toks[p - 1].type = "Verb"
       /\ toks[p - 1].c \in GrammarMonadic
       /\ ExpectsMonadic(toks, p - 1)

\* A ( is opened at p, the tokens p + 1 .. j are its inner expression, and what
\* follows is not the ): the tokens end there, or a Vector or a ( follows.
UnclosedAt(toks, p, j) ==
    /\ toks[p].type = "LeftParen"
    /\ ExpectsPrimary(toks, p)
    /\ IsExpression(toks, p + 1, j)
    /\ j = Len(toks) \/ toks[j + 1].type \in {"Vector", "LeftParen"}

Unclosed(toks) == \E p \in 1..Len(toks), j \in 1..Len(toks) : p < j /\ UnclosedAt(toks, p, j)

\* C10: the parse of tokens in which a ( is opened and its inner expression
\* parses but the ) is absent fails with InvalidExpression and returns no tree.
C10_UnclosedParen ==
    (ParseRan /\ Unclosed(tokens.val))
    => /\ Done
       /\ ast = None
       /\ ~result.ok
       /\ result.err.kind = "ParseError"
       /\ result.err.variant = "InvalidExpression"

\* ~(1+2+~3 : the ( after a monadic verb stays open to the end of the tokens.
C10_Witness ==
    /\ Done
    /\ expression = <<"~", "(", "1", "+", "2", "+", "~", "3">>
    /\ Unclosed(tokens.val)
    /\ result = Err(ParseError("InvalidExpression", "Error: Missing closing parenthesis"))

\* The tree the grammar gives the tokens i..j: a parenthesis stands for the
\* tree of its inside, a monadic verb takes the Primary after it, and a chain
\* splits at its last verb.
RECURSIVE TreeExpression(_, _, _)
TreePrimary(toks, i, j) ==
    IF i = j THEN Literal(toks[i].array) ELSE TreeExpression(toks, i + 1, j - 1)

TreeMonadic(toks, i, j) ==
    IF IsPrimary(toks, i, j) THEN TreePrimary(toks, i, j)
    ELSE AmbiguousVerb(toks[i].c, None, TreePrimary(toks, i + 1, j))

RECURSIVE TreeJOperators(_, _, _)
TreeJOperators(toks, i, j) ==
    IF IsMonadic(toks, i, j) THEN TreeMonadic(toks, i, j)
    ELSE LET k == CHOOSE k \in i + 1..j - 1 :
                    /\ toks[k].type = "Verb"
                    /\ toks[k].c \in GrammarDyadic
                    /\ IsMonadic(toks, k + 1, j)
                    /\ IsJOperators(toks, i, k - 1)
         IN AmbiguousVerb(toks[k].c, TreeJOperators(toks, i, k - 1), TreeMonadic(toks, k + 1, j))

TreeExpression(toks, i, j) ==
    IF IsJOperators(toks, i, j) THEN TreeJOperators(toks, i, j)
    ELSE LET k == CHOOSE k \in i + 1..j - 1 :
                    /\ toks[k] = Verb("+")
                    /\ IsJOperators(toks, k + 1, j)
                    /\ IsExpression(toks, i, k - 1)
         IN AmbiguousVerb("+", TreeExpression(toks, i, k - 1), TreeJOperators(toks, k + 1, j))

HasParen(toks) == \E k \in 1..Len(toks) : toks[k].type = "LeftParen"

PlusOneTwo == AmbiguousVerb("+", Literal(JArray_scalar(1)), Literal(JArray_scalar(2)))

\* C11: the tree of a parenthesized sub-expression stands where the
\* parenthesis stood: tokens that form an expression with a parenthesis parse
\* to the tree of the grammar in which ( e ) is the tree of e; ~(1+2) is the
\* monadic ~ whose operand is the + node, and (1+2)#3 is the # node whose left
\* operand is the + node.
C11_ParenTree ==
    /\ (ParseRan /\ HasParen(tokens.val) /\ IsExpression(tokens.val, 1, Len(tokens.val)))
       => ast = Ok(TreeExpression(tokens.val, 1, Len(tokens.val)))
    /\ (ParseRan /\ expression = <<"~", "(", "1", "+", "2", ")">>)
       => ast = Ok(AmbiguousVerb("~", None, PlusOneTwo))
    /\ (ParseRan /\ expression = <<"(", "1", "+", "2", ")", "#", "3">>)
       => ast = Ok(AmbiguousVerb("#", PlusOneTwo, Literal(JArray_scalar(3))))

C11_Witness ==
    /\ ParseRan
    /\ expression = <<"(", "1", "+", "2", ")", "#", "3">>
    /\ HasParen(tokens.val)
    /\ ast.ok
    /\ ast.val.left = PlusOneTwo

\* The tree of each text of ChainTerms.
TermTree(a) ==
    CASE a = <<"1">> -> Literal(JArray_scalar(1))
      [] a = <<"~", "2">> -> AmbiguousVerb("~", None, Literal(JArray_scalar(2)))
      [] a = <<"(", "1", "+", "2", ")">> -> PlusOneTwo

\* The verbs of the tokens that stand after an operand: the dyadic ones.
DyadicCount(toks) ==
    Cardinality({k \in 2..Len(toks) :
        toks[k].type = "Verb" /\ toks[k - 1].type \in {"Vector", "RightParen"}})

IsDyadicNode(t) == t.node = "AmbiguousVerb" /\ t.left # None

\* The number of dyadic nodes down the left operands of t.
RECURSIVE LeftDepth(_)
LeftDepth(t) == IF IsDyadicNode(t) THEN 1 + LeftDepth(t.left) ELSE 0

\* No right operand down the left operands of t is a dyadic node.
RECURSIVE RightFlat(_)
RightFlat(t) == IsDyadicNode(t) => (~IsDyadicNode(t.right) /\ RightFlat(t.left))

\* C12: the array-operator layer is left-associative: a v1 b v2 c parses to
\* AmbiguousVerb(v2, AmbiguousVerb(v1, a, b), c) for all verbs of the layer
\* (# { , < ~) and operands a, b, c, and a chain of n such verbs without
\* parentheses nests n deep on the left and never on the right.
C12_ChainLeftAssoc ==
    /\ \A a \in ChainTerms, b \in ChainTerms, c \in ChainTerms,
          v1 \in ChainVerbs, v2 \in ChainVerbs :
         (ParseRan /\ expression = a \o <<v1>> \o b \o <<v2>> \o c)
         => ast = Ok(AmbiguousVerb(v2, AmbiguousVerb(v1, TermTree(a), TermTree(b)),
                                   TermTree(c)))
    /\ (ParseRan /\ ~HasParen(tokens.val) /\ IsJOperators(tokens.val, 1, Len(tokens.val)))
       => /\ ast.ok
          /\ LeftDepth(ast.val) = DyadicCount(tokens.val)
          /\ RightFlat(ast.val)

C12_Witness ==
    /\ ParseRan
    /\ expression = <<"1", "#", "2", ",", "1", "{", "2">>
    /\ ast.ok
    /\ LeftDepth(ast.val) = 3
    /\ ast.val.verb = "{"
    /\ ast.val.left.left.verb = "#"

\* t holds no dyadic + node.
RECURSIVE PlusFree(_)
PlusFree(t) ==
    \/ t.node = "Literal"
    \/ /\ t.node = "AmbiguousVerb"
       /\ ~(t.verb = "+" /\ t.left # None)
       /\ t.left = None \/ PlusFree(t.left)
       /\ t.right = None \/ PlusFree(t.right)

IsPlusNode(t) == t.node = "AmbiguousVerb" /\ t.verb = "+" /\ t.left # None

\* The + nodes of t are its root and the left operands under it: each right
\* operand, and the innermost left one, holds no +.
RECURSIVE PlusSpine(_)
PlusSpine(t) ==
    IF IsPlusNode(t) THEN PlusFree(t.right) /\ PlusSpine(t.left) ELSE PlusFree(t)

HasPlus(toks) == \E k \in 2..Len(toks) : toks[k] = Verb("+")

\* C13: dyadic + binds loosest and associates to the left: a v b + c parses
\* to (a v b) + c, a + b v c to a + (b v c) and a + b + c to (a + b) + c for
\* every verb v of the array-operator layer, and the tree of an
\* unparenthesized expression with a + has a + node as root, all its + nodes
\* down the left operands of the root, and every other chain inside one
\* operand of a +.
C13_PlusLoosest ==
    /\ \A a \in PlusTerms, b \in PlusTerms, c \in PlusTerms, v \in ChainVerbs :
         /\ (ParseRan /\ expression = a \o <<v>> \o b \o <<"+">> \o c)
            => ast = Ok(AmbiguousVerb("+", AmbiguousVerb(v, TermTree(a), TermTree(b)),
                                      TermTree(c)))
         /\ (ParseRan /\ expression = a \o <<"+">> \o b \o <<v>> \o c)
            => ast = Ok(AmbiguousVerb("+", TermTree(a),
                                      AmbiguousVerb(v, TermTree(b), TermTree(c))))
         /\ (ParseRan /\ expression = a \o <<"+">> \o b \o <<"+">> \o c)
            => ast = Ok(AmbiguousVerb("+", AmbiguousVerb("+", TermTree(a), TermTree(b)),
                                      TermTree(c)))
    /\ (/\ ParseRan
        /\ ~HasParen(tokens.val)
        /\ HasPlus(tokens.val)
        /\ IsExpression(tokens.val, 1, Len(tokens.val)))
       => /\ ast.ok
          /\ IsPlusNode(ast.val)
          /\ PlusSpine(ast.val)

C13_Witness ==
    /\ ParseRan
    /\ expression = <<"1", ",", "2", "+", "1", "<", "2">>
    /\ ast = Ok(AmbiguousVerb("+",
                  AmbiguousVerb(",", Literal(JArray_scalar(1)), Literal(JArray_scalar(2))),
                  AmbiguousVerb("<", Literal(JArray_scalar(1)), Literal(JArray_scalar(2)))))

\* C14: a monadic verb takes another monadic application as its operand: the
\* call on #~n ends with the scalar n, and the call on ~3+#~4 with [4, 5, 6].
C14_NestedMonadic ==
    /\ \A n \in 0..2 :
         (Done /\ expression = <<"#", "~", ToString(n)>>) => result = Ok(JArray_scalar(n))
    /\ (Done /\ expression = <<"~", "3", "+", "#", "~", "4">>)
       => result = Ok(JArray_vector(<<4, 5, 6>>))

\* The analyzer has run on the tree ast; AnalyzeOutcome is what it returned.
Analyzed == ast # None /\ pc \in {"evaluate", "done"}

AnalyzeOutcome == IF resolved_ast # None THEN resolved_ast ELSE result

\* The verbs the documentation names for each use.
ResolvesMonadic == {"+", "~", "#", ",", "<"}

ResolvesDyadic == {"+", "#", "{", ",", "<"}

\* t is made of literals and AmbiguousVerb nodes only.
RECURSIVE OnlyAmbiguous(_)
OnlyAmbiguous(t) ==
    \/ t.node = "Literal"
    \/ /\ t.node = "AmbiguousVerb"
       /\ t.left = None \/ OnlyAmbiguous(t.left)
       /\ t.right = None \/ OnlyAmbiguous(t.right)

\* Every verb of t has a right operand and is one of the verbs of its use.
RECURSIVE Resolves(_)
Resolves(t) ==
    \/ t.node = "Literal"
    \/ /\ t.node = "AmbiguousVerb"
       /\ t.right # None
       /\ Resolves(t.right)
       /\ IF t.left = None THEN t.verb \in ResolvesMonadic
          ELSE t.verb \in ResolvesDyadic /\ Resolves(t.left)

\* The tree with each verb named by its operands.
RECURSIVE Resolved(_)
Resolved(t) ==
    IF t.node = "Literal" THEN t
    ELSE IF t.left = None THEN MonadicVerb(t.verb, Resolved(t.right))
    ELSE DyadicVerb(t.verb, Resolved(t.left), Resolved(t.right))

InvalidVerbUsage(r) ==
    ~r.ok /\ r.err.kind = "SemanticError" /\ r.err.variant = "InvalidVerbUsage"

\* C15: the analyzer decides an AmbiguousVerb by its verb and the operands it
\* has.  With operands that resolve: (None, Some r) becomes MonadicVerb iff the
\* verb is one of + ~ # , < and (Some l, Some r) becomes DyadicVerb iff it is
\* one of + # { , <, and is InvalidVerbUsage otherwise; (Some l, None) and
\* (None, None) are always InvalidVerbUsage; a Literal is returned unchanged.
C15_ResolveByOperands ==
    (Analyzed /\ OnlyAmbiguous(ast.val))
    => LET t == ast.val
       IN /\ t.node = "Literal" => AnalyzeOutcome = Ok(t)
          /\ (t.node = "AmbiguousVerb" /\ t.right = None) => InvalidVerbUsage(AnalyzeOutcome)
          /\ (/\ t.node = "AmbiguousVerb"
              /\ t.left = None
              /\ t.right # None
              /\ Resolves(t.right))
             => IF t.verb \in ResolvesMonadic
                THEN AnalyzeOutcome = Ok(MonadicVerb(t.verb, Resolved(t.right)))
                ELSE InvalidVerbUsage(AnalyzeOutcome)
          /\ (/\ t.node = "AmbiguousVerb"
              /\ t.left # None
              /\ t.right # None
              /\ Resolves(t.left)
              /\ Resolves(t.right))
             => IF t.verb \in ResolvesDyadic
                THEN AnalyzeOutcome = Ok(DyadicVerb(t.verb, Resolved(t.left),
                                                   Resolved(t.right)))
                ELSE InvalidVerbUsage(AnalyzeOutcome)

\* { between a monadic application and a literal resolves to DyadicVerb.
C15_Witness ==
    /\ Analyzed
    /\ ast = Ok(AmbiguousVerb("{", AmbiguousVerb("~", None, Literal(JArray_scalar(3))),
                              Literal(JArray_vector(<<1, 2>>))))
    /\ resolved_ast = Ok(DyadicVerb("{", MonadicVerb("~", Literal(JArray_scalar(3))),
                                    Literal(JArray_vector(<<1, 2>>))))

RECURSIVE HasAmbiguous(_)
HasAmbiguous(t) ==
    CASE t.node = "AmbiguousVerb" -> TRUE
      [] t.node = "MonadicVerb" -> HasAmbiguous(t.arg)
      [] t.node = "DyadicVerb" -> HasAmbiguous(t.left) \/ HasAmbiguous(t.right)
      [] OTHER -> FALSE

\* The verbs and literals of t in their positions, without the kind of node.
RECURSIVE Positions(_)
Positions(t) ==
    CASE t.node = "MonadicVerb" ->
           [node |-> "Verb", verb |-> t.verb, left |-> None, right |-> Positions(t.arg)]
      [] t.node \in {"DyadicVerb", "AmbiguousVerb"} ->
           [node |-> "Verb", verb |-> t.verb,
            left |-> IF t.left = None THEN None ELSE Positions(t.left),
            right |-> IF t.right = None THEN None ELSE Positions(t.right)]
      [] OTHER -> t

\* C16: a tree the analyzer returns holds no AmbiguousVerb and has the verbs
\* and literals of its input in the same positions; and the evaluator applies
\* no verb of a tree that holds an AmbiguousVerb: the evaluation returns no
\* array, and an AmbiguousVerb at the root is answered with a domain error.
C16_NoAmbiguousLeft ==
    /\ (Analyzed /\ resolved_ast # None)
       => /\ resolved_ast.ok
          /\ ~HasAmbiguous(resolved_ast.val)
          /\ Positions(resolved_ast.val) = Positions(ast.val)
    /\ (Done /\ resolved_ast # None /\ HasAmbiguous(resolved_ast.val))
       => /\ ~result.ok
          /\ resolved_ast.val.node = "AmbiguousVerb"
             => result = Err(EvaluationError("DomainError"))

\* An analysis that resolved two nested AmbiguousVerb nodes, evaluated.
C16_Witness ==
    /\ Done
    /\ ast = Ok(AmbiguousVerb("#", None, AmbiguousVerb("~", None, Literal(JArray_scalar(3)))))
    /\ resolved_ast = Ok(MonadicVerb("#", MonadicVerb("~", Literal(JArray_scalar(3)))))
    /\ result = Ok(JArray_scalar(3))

\* An evaluation handed a tree with an AmbiguousVerb under a resolved verb.
C16_WitnessUnresolved ==
    /\ Done
    /\ ast = None
    /\ resolved_ast = Ok(MonadicVerb("#", AmbiguousVerb("~", None, Literal(JArray_scalar(3)))))
    /\ result = Err(EvaluationError("DomainError"))

\* The evaluator has returned for the verb applied to the literal array a.
EvaluatedMonadic(verb, a) == Done /\ resolved_ast = Ok(MonadicVerb(verb, Literal(a)))

\* The vector 0, 1, ..., n - 1.
Counting(n) ==
    [data |-> [k \in 1..n |-> Integer(k - 1)], shape |-> [dimensions |-> <<n>>]]

\* C17: monadic ~ on a rank-0 integer n >= 0 returns the rank-1 array
\* 0, 1, ..., n - 1 of length n; on a negative scalar, on an argument of rank
\* >= 1 and on a scalar that is a character or a box it fails with DomainError.
C17_Iota ==
    \A a \in Arrays :
        EvaluatedMonadic("~", a)
        => LET v == a.data[1]
           IN /\ (rank(a.shape) = 0 /\ v.tag = "Integer" /\ v.i >= 0)
                 => result = Ok(Counting(v.i))
              /\ (rank(a.shape) = 0 /\ v.tag = "Integer" /\ v.i < 0)
                 => result = Err(EvaluationError("DomainError"))
              /\ rank(a.shape) >= 1 => result = Err(EvaluationError("DomainError"))
              /\ (rank(a.shape) = 0 /\ v.tag \in {"Character", "Box"})
                 => result = Err(EvaluationError("DomainError"))

C17_Witness ==
    /\ EvaluatedMonadic("~", JArray_scalar(3))
    /\ result.ok
    /\ result.val.data = <<Integer(0), Integer(1), Integer(2)>>
    /\ result.val.shape.dimensions = <<3>>

\* A one-element vector is no scalar: its iota fails.
C17_WitnessVector ==
    /\ EvaluatedMonadic("~", JArray_vector(<<5>>))
    /\ result = Err(EvaluationError("DomainError"))

IsSumAt(text, k) ==
    /\ 1 < k
    /\ k < Len(text)
    /\ text[k] = "+"
    /\ \A j \in 1..Len(text) : j # k => text[j] \in Digits

\* x + y on limbs, from limb k on.
RECURSIVE AddLimbs(_, _, _, _)
AddLimbs(x, y, k, carry) ==
    IF k > Len(x) THEN [limbs |-> x, carry |-> carry]
    ELSE LET t == x[k] + y[k] + carry
         IN AddLimbs([x EXCEPT ![k] = t % LimbBase], y, k + 1, t \div LimbBase)

\* The limbs of an i32 that is not negative.
LimbsOf(v) == [k \in 1..I64Limbs |-> IF k = 1 THEN v % LimbBase
                                     ELSE IF k = 2 THEN v \div LimbBase ELSE 0]

\* The array r holds the sum of the numerals a and b.
HoldsSum(r, a, b) ==
    LET sum == AddLimbs(ParseI64(a).val, ParseI64(b).val, 1, 0)
    IN /\ r.shape.dimensions = <<>>
       /\ Len(r.data) = 1
       /\ r.data[1].tag = "Integer"
       /\ r.data[1].i >= 0
       /\ sum.carry = 0
       /\ LimbsOf(r.data[1].i) = sum.limbs

\* C18: for numerals a and b the lexer accepts, the call on the text a+b ends
\* with the rank-0 array that holds the sum of a and b: no literal is cut to
\* 32 bits, and the addition neither wraps nor aborts.
C18_ExactSum ==
    \A k \in 1..Len(expression) :
        (/\ Done
         /\ IsSumAt(expression, k)
         /\ ParseI64(SubSeq(expression, 1, k - 1)).ok
         /\ ParseI64(SubSeq(expression, k + 1, Len(expression))).ok)
        => /\ result.ok
           /\ HoldsSum(result.val, SubSeq(expression, 1, k - 1),
                       SubSeq(expression, k + 1, Len(expression)))


\* The evaluator has returned for + applied to the literal arrays a and b.
EvaluatedPlus(a, b) == Done /\ resolved_ast = Ok(DyadicVerb("+", Literal(a), Literal(b)))

IntegerArray(a) == \A k \in 1..Len(a.data) : a.data[k].tag = "Integer"

\* x is the sum of the i32 values a and b.
IsSum(x, a, b) ==
    /\ ~(a > 0 /\ b > I32Max - a)
    /\ ~(a < 0 /\ b < I32Min - a)
    /\ x = a + b

\* The data r is, element by element, the sum of the data left and right.
SumData(r, left_data, right_data) ==
    /\ Len(r) = Len(left_data)
    /\ \A k \in 1..Len(r) :
         r[k].tag = "Integer" /\ IsSum(r[k].i, left_data[k].i, right_data[k].i)

\* C19: dyadic + on two non-scalar integer arrays of identical shape returns
\* that shape with element i the sum of left[i] and right[i]; on two
\* non-scalars of different shape it fails with DimensionMismatch; with a
\* scalar s and a vector V, on either side, it returns the vector of s + V[i].
C19_PlusShapes ==
    \A a \in Arrays, b \in Arrays :
        (EvaluatedPlus(a, b) /\ IntegerArray(a) /\ IntegerArray(b))
        => /\ (rank(a.shape) >= 1 /\ rank(b.shape) >= 1 /\ a.shape = b.shape)
              => /\ result.ok
                 /\ result.val.shape = a.shape
                 /\ SumData(result.val.data, a.data, b.data)
           /\ (rank(a.shape) >= 1 /\ rank(b.shape) >= 1 /\ a.shape # b.shape)
              => result = Err(EvaluationError("DimensionMismatch"))
           /\ (rank(a.shape) = 0 /\ rank(b.shape) = 1)
              => /\ result.ok
                 /\ result.val.shape = b.shape
                 /\ SumData(result.val.data, Broadcast(a.data[1], Len(b.data)), b.data)
           /\ (rank(a.shape) = 1 /\ rank(b.shape) = 0)
              => /\ result.ok
                 /\ result.val.shape = a.shape
                 /\ SumData(result.val.data, a.data, Broadcast(b.data[1], Len(a.data)))

\* The evaluator has returned for the verb applied to the literal arrays a and b.
EvaluatedDyadic(verb, a, b) ==
    Done /\ resolved_ast = Ok(DyadicVerb(verb, Literal(a), Literal(b)))

LeftLiteral == resolved_ast.val.left.array

RightLiteral == resolved_ast.val.right.array

\* The dimensions d1..dk the data of the array a asks for.
RequestedDims(a) == [k \in 1..Len(a.data) |-> a.data[k].i]

\* d1 * ... * dk = n; a negative representative stands for a dimension no
\* element count reaches.
Fits(dimensions, n) ==
    IF \E k \in 1..Len(dimensions) : dimensions[k] = 0 THEN n = 0
    ELSE /\ \A k \in 1..Len(dimensions) : dimensions[k] > 0
         /\ DimProduct(dimensions, 1) = n

\* C21: dyadic # with the left operand data d1..dk and the source S returns
\* the shape d1..dk with the data of S in its order iff d1*...*dk is the
\* element count of S, and fails otherwise with InvalidReshape, from the
\* shape of S to the requested shape; 2 3#1 2 3 4 fails.
C21_Reshape ==
    /\ (/\ Done
        /\ resolved_ast # None
        /\ resolved_ast.val.node = "DyadicVerb"
        /\ resolved_ast.val.verb = "#"
        /\ resolved_ast.val.left.node = "Literal"
        /\ resolved_ast.val.right.node = "Literal"
        /\ IntegerArray(LeftLiteral))
       => IF Fits(RequestedDims(LeftLiteral), Len(RightLiteral.data))
          THEN result = Ok([data |-> RightLiteral.data,
                            shape |-> [dimensions |-> RequestedDims(LeftLiteral)]])
          ELSE /\ ~result.ok
               /\ result.err.kind = "EvaluationError"
               /\ result.err.variant = "ArrayError"
               /\ result.err.array_error =
                    [kind |-> "ArrayError", variant |-> "InvalidReshape",
                     from_shape |-> RightLiteral.shape,
                     to_shape |-> [dimensions |-> RequestedDims(LeftLiteral)]]
    /\ (Done /\ expression = <<"2", " ", "3", "#", "1", " ", "2", " ", "3", " ", "4">>)
       => ~result.ok

\* C22: for every array A whose data length is the product of its dimensions
\* (rank 0 and zero dimensions included) the reshape of the ravel of A to the
\* shape of A returns A, and the ravel of A is the rank-1 array with the data
\* of A in its order.
C22_RavelReshape ==
    /\ \A a \in RoundTripArrays :
         (Done /\ resolved_ast = Ok(RoundTrip(a)) /\ LengthInvariant(a)) => result = Ok(a)
    /\ \A a \in Arrays :
         EvaluatedMonadic(",", a)
         => result = Ok([data |-> a.data, shape |-> [dimensions |-> <<Len(a.data)>>]])

\* Every index of the array i is a flat position of the array s.
IndicesInBounds(i, s) ==
    \A k \in 1..Len(i.data) : i.data[k].i >= 0 /\ i.data[k].i < Len(s.data)

\* The evaluation failed with the ArrayError of the given variant.
FailsWithArrayError(variant) ==
    /\ ~result.ok
    /\ result.err.kind = "EvaluationError"
    /\ result.err.variant = "ArrayError"
    /\ result.err.array_error = ArrayError(variant)

\* C23: dyadic { with integer indices I and source S returns the shape of I
\* with element k the element of S at the flat position I[k], whatever the
\* rank of S; with an index that is negative or not below the element count
\* of S it fails with IndexOutOfBounds and returns nothing; 0 2{10 20 30 40
\* is 10 30 and 5{10 20 30 fails.
C23_SelectFrom ==
    /\ \A i \in Arrays, s \in Arrays :
         (EvaluatedDyadic("{", i, s) /\ IntegerArray(i))
         => IF IndicesInBounds(i, s)
            THEN result = Ok([data |-> [k \in 1..Len(i.data) |-> s.data[i.data[k].i + 1]],
                              shape |-> i.shape])
            ELSE FailsWithArrayError("IndexOutOfBounds")
    /\ EvaluatedDyadic("{", JArray_vector(<<0, 2>>), JArray_vector(<<10, 20, 30, 40>>))
       => result = Ok(JArray_vector(<<10, 30>>))
    /\ EvaluatedDyadic("{", JArray_scalar(5), JArray_vector(<<10, 20, 30>>))
       => FailsWithArrayError("IndexOutOfBounds")
    /\ EvaluatedDyadic("{", JArray_vector(<<0, 5>>), JArray_vector(<<10, 20, 30>>))
       => FailsWithArrayError("IndexOutOfBounds")

\* The indices 1 2 select from a matrix by flat position.
C23_Witness ==
    /\ EvaluatedDyadic("{", JArray_vector(<<1, 2>>), JArray_matrix(<<1, 2, 3, 4>>, 2, 2).val)
    /\ result = Ok(JArray_vector(<<2, 3>>))

\* C24: dyadic , succeeds for arrays of any ranks and returns the rank-1
\* array whose data is the data of a followed by the data of b; operands that
\* are not both vectors and not both scalars are raveled, which makes both
\* vectors, so the concatenation recurses once; 1 2,3 4 is 1 2 3 4 and 1,2
\* is 1 2.
C24_Concatenate ==
    /\ \A a \in Arrays, b \in Arrays :
         /\ EvaluatedDyadic(",", a, b)
            => result = Ok([data |-> a.data \o b.data,
                            shape |-> [dimensions |-> <<Len(a.data) + Len(b.data)>>]])
         /\ (/\ EvaluatedDyadic(",", a, b)
             /\ ~(is_vector(a) /\ is_vector(b))
             /\ ~(is_scalar(a) /\ is_scalar(b)))
            => is_vector(JArray_ravel(a)) /\ is_vector(JArray_ravel(b))
    /\ EvaluatedDyadic(",", JArray_vector(<<1, 2>>), JArray_vector(<<3, 4>>))
       => result = Ok(JArray_vector(<<1, 2, 3, 4>>))
    /\ EvaluatedDyadic(",", JArray_scalar(1), JArray_scalar(2))
       => result = Ok(JArray_vector(<<1, 2>>))

\* A matrix and a scalar: both are raveled.
C24_Witness ==
    /\ EvaluatedDyadic(",", JArray_matrix(<<1, 2, 3, 4>>, 2, 2).val, JArray_scalar(3))
    /\ result = Ok(JArray_vector(<<1, 2, 3, 4, 3>>))

\* unbox has been called on the array the evaluation of the tree t returned.
Unboxed(t) == pc = "unboxed" /\ resolved_ast = Ok(t)

\* C25: the box of an array A is a rank-0 array with one element, a Box that
\* holds A, and unbox of it is A; unbox of an array of rank >= 1 and of a
\* rank-0 array whose element is no Box is none.
C25_BoxUnbox ==
    \A a \in Arrays :
        /\ EvaluatedMonadic("<", a)
           => result = Ok([data |-> <<[tag |-> "Box", boxed |-> a]>>,
                           shape |-> [dimensions |-> <<>>]])
        /\ Unboxed(MonadicVerb("<", Literal(a))) => result = a
        /\ (Unboxed(Literal(a)) /\ rank(a.shape) >= 1) => result = None
        /\ (Unboxed(Literal(a)) /\ rank(a.shape) = 0 /\ a.data[1].tag # "Box")
           => result = None
        /\ (Unboxed(Literal(a)) /\ rank(a.shape) = 0 /\ a.data[1].tag = "Box")
           => result = a.data[1].boxed

\* The box of a matrix, unboxed.
C25_Witness ==
    /\ Unboxed(MonadicVerb("<", Literal(JArray_matrix(<<1, 2, 3, 4>>, 2, 2).val)))
    /\ result = JArray_matrix(<<1, 2, 3, 4>>, 2, 2).val
    /\ stages = <<"evaluate", "unbox">>

\* 1 where x is less than y, 0 elsewhere.
Less(x, y) == IF x < y THEN 1 ELSE 0

\* C26: dyadic < on integer arrays returns only 1 and 0: on two scalars the
\* scalar 1 iff left < right; on operands of equal element count the shape of
\* the left operand with 1 where left[i] < right[i] and 0 elsewhere; on
\* operands of different element counts (a scalar and a vector of two or
\* more elements included) it fails with DimensionMismatch.
C26_LessThan ==
    \A a \in Arrays, b \in Arrays :
        (EvaluatedDyadic("<", a, b) /\ IntegerArray(a) /\ IntegerArray(b))
        => IF rank(a.shape) = 0 /\ rank(b.shape) = 0
           THEN result = Ok([data |-> <<Integer(Less(a.data[1].i, b.data[1].i))>>,
                             shape |-> [dimensions |-> <<>>]])
           ELSE IF Len(a.data) = Len(b.data)
           THEN result = Ok([data |-> [k \in 1..Len(a.data) |->
                                         Integer(Less(a.data[k].i, b.data[k].i))],
                             shape |-> a.shape])
           ELSE result = Err(EvaluationError("DimensionMismatch"))

\* Vectors of different length, compared.
C26_Witness ==
    /\ EvaluatedDyadic("<", JArray_vector(<<1, 2, 3>>), JArray_vector(<<1, 2>>))
    /\ result = Err(EvaluationError("DimensionMismatch"))

\* Vectors of the same length, compared.
C26_WitnessEqual ==
    /\ EvaluatedDyadic("<", JArray_vector(<<1, 2>>), JArray_vector(<<3, 4>>))
    /\ result = Ok(JArray_vector(<<1, 1>>))

NonNumeric(v) == v.tag \in {"Box", "Character"}

\* The integer a numeric element is read as.
ReadAs(v) ==
    IF v.tag = "Integer" THEN v.i
    ELSE IF v.tenths >= 0 THEN v.tenths \div 10 ELSE -((-v.tenths) \div 10)

\* The elements the verb meets pair by pair: a scalar operand of + meets
\* every element of the other operand.
LeftRead(verb, a, b) ==
    IF verb = "+" /\ rank(a.shape) = 0 /\ rank(b.shape) > 0
    THEN Broadcast(a.data[1], Len(b.data)) ELSE a.data

RightRead(verb, a, b) ==
    IF verb = "+" /\ rank(b.shape) = 0 /\ rank(a.shape) > 0
    THEN Broadcast(b.data[1], Len(a.data)) ELSE b.data

\* The verb reads the elements of its operands: their shapes let it start.
ReadsElements(verb, a, b) ==
    \/ rank(a.shape) = 0 /\ rank(b.shape) = 0
    \/ verb = "+" /\ (rank(a.shape) = 0 \/ rank(b.shape) = 0)
    \/ verb = "+" /\ a.shape = b.shape
    \/ verb = "<" /\ Len(a.data) = Len(b.data)

\* The sum of the pair k of numeric elements leaves the i32 range.
PairOverflows(l, r, k) ==
    LET x == ReadAs(l[k])
        y == ReadAs(r[k])
    IN (x > 0 /\ y > I32Max - x) \/ (x < 0 /\ y < I32Min - x)

\* The verb reads an element that is no number: the scalar operand of a
\* scalar + array, or an element of a pair before which no sum has left the
\* i32 range.
ReadsNonNumeric(verb, a, b) ==
    /\ ReadsElements(verb, a, b)
    /\ \/ verb = "+" /\ rank(a.shape) = 0 /\ NonNumeric(a.data[1])
       \/ verb = "+" /\ rank(b.shape) = 0 /\ NonNumeric(b.data[1])
       \/ LET l == LeftRead(verb, a, b)
              r == RightRead(verb, a, b)
          IN \E k \in 1..Len(l) :
                /\ NonNumeric(l[k]) \/ NonNumeric(r[k])
                /\ \A j \in 1..k - 1 :
                     /\ ~NonNumeric(l[j])
                     /\ ~NonNumeric(r[j])
                     /\ verb = "+" => ~PairOverflows(l, r, j)

HasNonNumeric(a) == \E k \in 1..Len(a.data) : NonNumeric(a.data[k])

\* C27: dyadic + and dyadic < fail with DomainError whenever an element they
\* read from either operand is a Box or a Character, in every combination of
\* scalar and non-scalar operands, and return no array when an operand whose
\* elements they read holds such an element; 1+<2 and (<1)<2 fail with
\* DomainError.
C27_NonNumeric ==
    /\ \A verb \in {"+", "<"}, a \in Arrays, b \in Arrays :
         /\ (EvaluatedDyadic(verb, a, b) /\ ReadsNonNumeric(verb, a, b))
            => result = Err(EvaluationError("DomainError"))
         /\ (/\ EvaluatedDyadic(verb, a, b)
             /\ ReadsElements(verb, a, b)
             /\ HasNonNumeric(a) \/ HasNonNumeric(b))
            => ~result.ok
    /\ (Done /\ resolved_ast = Ok(DyadicVerb("+", Literal(JArray_scalar(1)),
                                              MonadicVerb("<", Literal(JArray_scalar(2))))))
       => result = Err(EvaluationError("DomainError"))
    /\ (Done /\ resolved_ast = Ok(DyadicVerb("<", MonadicVerb("<", Literal(JArray_scalar(1))),
                                              Literal(JArray_scalar(2)))))
       => result = Err(EvaluationError("DomainError"))

\* A vector whose second element is a character, added to a vector.
C27_Witness ==
    /\ EvaluatedDyadic("+", [data |-> <<Integer(1), Character("a")>>,
                              shape |-> ArrayShape_vector(2)], JArray_vector(<<3, 4>>))
    /\ result = Err(EvaluationError("DomainError"))

\* The evaluator has returned for the tree of a dyadic verb.
EvaluatedDyadicNode ==
    Done /\ resolved_ast # None /\ resolved_ast.val.node = "DyadicVerb"

\* C28: the evaluation of a dyadic node returns the failure of its left
\* operand when that fails, whatever the right operand would do; the failure
\* of its right operand when only that fails; and otherwise what the verb
\* gives for the two arrays the operands produced.  A failure is returned as
\* the operand gave it.
C28_LeftFirst ==
    EvaluatedDyadicNode
    => LET t == resolved_ast.val
           left_value == evaluate(t.left)
           right_value == evaluate(t.right)
       IN /\ ~left_value.ok => result = left_value
          /\ (left_value.ok /\ ~right_value.ok) => result = right_value
          /\ (left_value.ok /\ right_value.ok)
             => result = evaluate(DyadicVerb(t.verb, Literal(left_value.val),
                                             Literal(right_value.val)))

\* Both operands fail, in different kinds: the failure of the left is returned.
C28_Witness ==
    /\ Done
    /\ resolved_ast = Ok(DyadicVerb("+", MonadicVerb("-", Literal(JArray_scalar(3))),
                                    DyadicVerb("{", Literal(JArray_scalar(5)),
                                               Literal(JArray_vector(<<1, 2>>)))))
    /\ result = Err(EvaluationError("UnsupportedVerb"))
    /\ ~evaluate(resolved_ast.val.right).ok
    /\ evaluate(resolved_ast.val.right) # result

\* The call of a parsing function at position p returned r: the position it
\* leaves is not before p and not past the tokens.
Advances(toks, p, r) == r.position >= p /\ r.position <= Len(toks)

\* C29: the parser terminates with its position within the tokens: every
\* state of the parser has 0 <= position <= tokens.len(); each parsing
\* function called at a position p of the tokens returns, leaves a position
\* from p to tokens.len(), and when it succeeds has consumed at least one
\* token, the tokens it consumed being a phrase of its layer of the grammar
\* (so each turn of the loops, which consumes a verb and an operand, moves
\* the position forward).
C29_ParserProgress ==
    /\ parser.position >= 0
    /\ parser.position <= Len(parser.tokens)
    /\ (tokens # None /\ tokens.ok)
       => \A p \in 0..Len(tokens.val) :
            LET toks == tokens.val
                primary == parse_primary(toks, p)
                monadic == parse_monadic(toks, p)
                chain == parse_j_operators(toks, p)
                whole == parse_expression(toks, p)
            IN /\ Advances(toks, p, primary)
               /\ Advances(toks, p, monadic)
               /\ Advances(toks, p, chain)
               /\ Advances(toks, p, whole)
               /\ primary.ok => (primary.position > p /\ IsPrimary(toks, p + 1, primary.position))
               /\ monadic.ok => (monadic.position > p /\ IsMonadic(toks, p + 1, monadic.position))
               /\ chain.ok => (chain.position > p /\ IsJOperators(toks, p + 1, chain.position))
               /\ whole.ok => (whole.position > p /\ IsExpression(toks, p + 1, whole.position))

\* A parse whose loops turned three times and that ended at the last token.
C29_Witness ==
    /\ ParseRan
    /\ expression = <<"1", "#", "2", ",", "1", "{", "2">>
    /\ ast.ok
    /\ parser.position = 7
    /\ Len(parser.tokens) = 7

\* The result is an array of rank 1 with n elements.
VectorOfLength(r, n) ==
    r.ok /\ r.val.shape.dimensions = <<n>> /\ Len(r.val.data) = n

\* C30: dyadic + on integer arrays of which exactly one is a scalar returns
\* a rank-1 array with as many elements as the other operand, whatever its
\* rank (a scalar and a matrix give the flat vector, not the shape of the
\* matrix), and + on two rank-2 arrays of equal shape returns that shape.
C30_ScalarPlusShape ==
    \A a \in Arrays, b \in Arrays :
        (EvaluatedPlus(a, b) /\ IntegerArray(a) /\ IntegerArray(b))
        => /\ (rank(a.shape) = 0 /\ rank(b.shape) >= 1)
              => VectorOfLength(result, Len(b.data))
           /\ (rank(a.shape) >= 1 /\ rank(b.shape) = 0)
              => VectorOfLength(result, Len(a.data))
           /\ (rank(a.shape) = 2 /\ a.shape = b.shape)
              => result.ok /\ result.val.shape = a.shape

====
